---- MODULE Spec2Model ----
(***************************************************************************)
(* Model of the RFP proposal generator: ProposalGenerator.generate_proposal*)
(* (generator.py) driving TechnicalWriterAgent (technical_writer_agent.py).*)
(* Texts are sequences of tokens; a Python substring test is a test for a  *)
(* contiguous subsequence of tokens.                                       *)
(***************************************************************************)
EXTENDS Integers, Sequences, FiniteSets, TLC

VARIABLES
    pc,                \* where the run of generate_proposal stands
    mmdc_path,         \* TechnicalWriterAgent.mmdc_path: TRUE for "mmdc", FALSE for None
    oem_keywords,      \* ProposalGenerator.oem_keywords
    technology,        \* target_technology of the run
    rfp,               \* the RFP document (parsed, then reviewed)
    calls,             \* the oracle calls made so far, in order
    sent,              \* the prompt of each of those calls, in the same order
    content,           \* the outputs the core stages have returned
    gate,              \* locals of the diagram stage and of its validation attempt
    scratch,           \* the scratch artifacts that exist on disk
    is_oem,            \* what _is_oem_technology returned, once it was called
    oem_reviews_list,  \* the supplementary reviews of the run
    proposal,          \* the Proposal handed to the formatting agent
    env,               \* what construction finds: API key, configuration files, mmdc probe
    prompts,           \* the prompt template each agent holds, by prompt key
    runs,              \* the diagram stages of two runs interleaved on one instance
    error              \* the exception that left generate_proposal, if any

vars == <<pc, mmdc_path, oem_keywords, technology, rfp, calls, sent, content, gate, scratch,
          is_oem, oem_reviews_list, proposal, env, prompts, runs, error>>

\* ------------------------------------------------------------------ bounds
\* longest diagram script (in tokens) the oracle returns in the gate runs
MaxScriptLen == 3
\* longest diagram script (in tokens) the oracle returns in a whole-pipeline run
MaxRunScriptLen == 1
\* longest technology name (in characters) passed to _is_oem_technology on its own
MaxNameLen == 3
\* longest keyword (in characters) of the keyword list in those calls
MaxKeywordLen == 2

\* ------------------------------------------------------------- text helpers
\* Optional[str] = None
NoneStr == <<"<None>">>

IsSpace(t) == t \in {" ", "\n"}

RECURSIVE LStrip(_)
LStrip(s) == IF s # <<>> /\ IsSpace(Head(s)) THEN LStrip(Tail(s)) ELSE s

RECURSIVE RStrip(_)
RStrip(s) ==
    IF s # <<>> /\ IsSpace(s[Len(s)]) THEN RStrip(SubSeq(s, 1, Len(s) - 1)) ELSE s

\* str.strip()
Strip(s) == RStrip(LStrip(s))

\* needle in hay
Contains(hay, needle) ==
    \E i \in 0..(Len(hay) - Len(needle)) : SubSeq(hay, i + 1, i + Len(needle)) = needle

\* str.startswith / str.endswith for a one-token affix
StartsWith(s, tok) == s # <<>> /\ Head(s) = tok
EndsWith(s, tok) == s # <<>> /\ s[Len(s)] = tok

\* all sequences over S of length at most n
RECURSIVE SeqsUpTo(_, _)
SeqsUpTo(S, n) ==
    IF n = 0 THEN {<<>>}
    ELSE LET shorter == SeqsUpTo(S, n - 1)
         IN  shorter \cup {Append(s, t) : s \in shorter, t \in S}

\* -------------------------------------------------------- lengths of texts
\* RecursiveCharacterTextSplitter(chunk_size=4000, ...), parse line 81
chunk_size == 4000

\* _generate_understanding_requirements, line 246
max_rfp_text_len == 4000

\* review_rfp, line 81
max_len == 15000

\* a run of chunk_size - 2 characters that are not whitespace, kept as one token
\* so that texts around the window length stay short sequences
Block == "<block>"

\* runs of PageLen letters, kept as one token each; a text made of pages is cut
\* at a token boundary by both caps, max_rfp_text_len and max_len
PageLen == max_rfp_text_len \div 4
PageA == "<page a>"
PageB == "<page b>"

\* the end of the note appended to a truncated RFP text (line 249), after its newline
TruncationNote == "... [RFP text truncated for brevity]"

\* the characters of the file texts: a newline, a letter, a block
ChunkChars == {"\n", "x", Block}

MaxTextTokens == 4

\* the number of characters a token stands for
CharLen(t) ==
    CASE t = Block -> chunk_size - 2
      [] t \in {PageA, PageB} -> PageLen
      [] t = TruncationNote -> 36
      [] OTHER -> 1

\* len(text)
RECURSIVE TextLen(_)
TextLen(s) == IF s = <<>> THEN 0 ELSE CharLen(Head(s)) + TextLen(Tail(s))

\* text[:n], for a text that has a token boundary at n characters or is shorter
RECURSIVE Slice(_, _)
Slice(s, n) ==
    IF s = <<>> \/ CharLen(Head(s)) > n THEN <<>>
    ELSE <<Head(s)>> \o Slice(Tail(s), n - CharLen(Head(s)))

\* n pages: a text of n * PageLen letters that ends with a page of its own kind
RECURSIVE Pages(_)
Pages(n) == IF n = 0 THEN <<>> ELSE IF n = 1 THEN <<PageB>> ELSE <<PageA>> \o Pages(n - 1)

\* Optional[List[str]] = None
NoChunks == <<NoneStr>>

\* the value of text_splitter.split_text(full_text): the splitter is a library
\* class, so the call is kept as a term and its chunks are left undetermined
SplitText(full_text) == [call |-> "split_text", text |-> full_text]

\* mutant: a blank text is chunked like any other
TextChunksOfAnyText(full_text) ==
    IF TextLen(full_text) < chunk_size THEN <<full_text>> ELSE SplitText(full_text)

\* parse, lines 75-89: text_chunks of the extracted text
TextChunks(full_text) ==
    IF full_text # <<>> /\ Strip(full_text) # <<>>
    THEN IF TextLen(full_text) < chunk_size
         THEN <<full_text>>
         ELSE SplitText(full_text)
    ELSE NoChunks

\* ------------------------------------------------------------- exceptions
NoExc == [type |-> "None", agent_name |-> "", message |-> <<>>, cause |-> "None"]

\* an exception raised by a collaborator (oracle, parser, file system)
Raised(type, msg) ==
    [type |-> type, agent_name |-> "", message |-> msg, cause |-> "None"]

\* exceptions.py: LLMGenerationError(message, agent_name), raised "from" cause
LLMGenerationError(msg, agent, cause) ==
    [type |-> "LLMGenerationError", agent_name |-> agent, message |-> msg,
     cause |-> cause.type]

\* exceptions.py: MermaidValidationError(message, agent_name), subclass of LLMGenerationError
MermaidValidationError(msg, agent) ==
    [type |-> "MermaidValidationError", agent_name |-> agent, message |-> msg,
     cause |-> "None"]

\* isinstance(e, LLMGenerationError)
IsLLMGenerationError(e) == e.type \in {"LLMGenerationError", "MermaidValidationError"}

NoError == [type |-> "None", stage |-> "", original_exception |-> NoExc]

\* exceptions.py: ProposalGenerationError(message, stage, original_exception)
ProposalGenerationError(stage, e) ==
    [type |-> "ProposalGenerationError", stage |-> stage, original_exception |-> e]

\* an exception that no handler of generate_proposal catches
Uncaught(e) == [type |-> e.type, stage |-> "", original_exception |-> e]

\* LLMGenerationError.__str__ : "Agent '<agent_name>': <message>"
StrOf(e) ==
    IF e.type = "LLMGenerationError"
    THEN <<"Agent", e.agent_name, ":">> \o e.message
    ELSE e.message

\* ------------------------------------------------------------------ oracle
\* what one call of llm_agent.run can do: raise, return no container,
\* or return an output whose required field holds some text
OracleError == <<"LLM", "API", "Error">>

OracleOutcomes(texts) ==
    {[kind |-> "raise", text |-> OracleError], [kind |-> "none", text |-> <<>>]}
        \cup {[kind |-> "output", text |-> t] : t \in texts \cup {<<>>}}

\* texts the oracle returns for a narrative field: one prose or another, or only
\* whitespace
NarrativeTexts == {<<"narrative">>, <<"other", "narrative">>, <<" ">>}

\* the truthiness test applied to the container and its required field
HasContent(r) == r.kind = "output" /\ r.text # <<>>

\* ------------------------------------------------- Diagram Validation Gate
\* the fence markers: three backquotes, written ''' here
FenceOpen == "'''mermaid"
FenceClose == "'''"

\* keywords of the regular expressions of _validate_mermaid_basic
GraphDirections == {"TD", "LR", "BT", "RL"}
DiagramKeywords == {"sequenceDiagram", "classDiagram", "stateDiagram", "erDiagram",
                    "journey", "gantt", "pie", "gitGraph"}

\* re.search(r"^\s*(graph|sequenceDiagram|...)", s, re.MULTILINE)
LineStartsWithDiagramType(s) ==
    \E k \in 1..Len(s) :
        /\ s[k] \in DiagramKeywords \cup {"graph"}
        /\ \E i \in 1..k :
              /\ (i = 1 \/ s[i - 1] = "\n")
              /\ \A j \in i..(k - 1) : IsSpace(s[j])

\* re.search(r"(graph\s+(TD|LR|BT|RL)|sequenceDiagram|...)", s)
HasGraphDefinition(s) ==
    \E k \in 1..Len(s) :
        \/ s[k] \in DiagramKeywords
        \/ /\ s[k] = "graph"
           /\ \E d \in (k + 2)..Len(s) :
                 /\ s[d] \in GraphDirections
                 /\ \A j \in (k + 1)..(d - 1) : IsSpace(s[j])

Openers == {"(", "[", "{"}
Closers == {")", "]", "}"}
CloserOf(c) == CASE c = "(" -> ")" [] c = "[" -> "]" [] OTHER -> "}"

\* the bracket loop of _validate_mermaid_basic: TRUE iff it logs a
\* "potentially mismatched bracket"; a closer always pops the stack
RECURSIVE BracketMismatchLogged(_, _)
BracketMismatchLogged(s, stack) ==
    IF s = <<>> THEN FALSE
    ELSE LET char == Head(s)
         IN  IF char \in Openers
             THEN BracketMismatchLogged(Tail(s), <<char>> \o stack)
             ELSE IF char \in Closers
             THEN IF stack = <<>>
                  THEN TRUE
                  ELSE CloserOf(Head(stack)) # char
                         \/ BracketMismatchLogged(Tail(s), Tail(stack))
             ELSE BracketMismatchLogged(Tail(s), stack)

\* the bracket loop ends with an opener still on the stack
RECURSIVE BracketLeftOpen(_, _)
BracketLeftOpen(s, stack) ==
    IF s = <<>> THEN stack # <<>>
    ELSE LET char == Head(s)
         IN  IF char \in Openers
             THEN BracketLeftOpen(Tail(s), <<char>> \o stack)
             ELSE IF char \in Closers /\ stack # <<>>
             THEN BracketLeftOpen(Tail(s), Tail(stack))
             ELSE BracketLeftOpen(Tail(s), stack)

Unbalanced(s) == BracketMismatchLogged(s, <<>>) \/ BracketLeftOpen(s, <<>>)

\* mutant: a mismatched or unclosed bracket fails the basic check
ValidateMermaidBasicStrict(script) ==
    LET clean == Strip(script)
    IN  /\ script # <<>>
        /\ (StartsWith(clean, FenceOpen) /\ EndsWith(clean, FenceClose))
              \/ LineStartsWithDiagramType(clean)
        /\ HasGraphDefinition(clean)
        /\ ~Unbalanced(clean)

\* TechnicalWriterAgent._validate_mermaid_basic (Tier 1)
ValidateMermaidBasic(script) ==
    LET clean == Strip(script)
    IN  /\ script # <<>>
        /\ (StartsWith(clean, FenceOpen) /\ EndsWith(clean, FenceClose))
              \/ LineStartsWithDiagramType(clean)
        /\ HasGraphDefinition(clean)
        /\ (BracketMismatchLogged(clean, <<>>) \/ TRUE)

\* the fence normalisation of _generate_solution_architecture_mermaid
AddFences(raw) ==
    LET opened == IF StartsWith(Strip(raw), FenceOpen)
                  THEN raw
                  ELSE <<FenceOpen, "\n">> \o Strip(raw)
    IN  IF EndsWith(Strip(opened), FenceClose)
        THEN opened
        ELSE Strip(opened) \o <<"\n", FenceClose>>

\* the fence removal of _validate_mermaid_with_cli
CleanScript(script) ==
    LET clean == Strip(script)
    IN  IF StartsWith(clean, FenceOpen) /\ EndsWith(clean, FenceClose)
        THEN Strip(SubSeq(clean, 2, Len(clean) - 1))
        ELSE IF StartsWith(clean, "mermaid")
        THEN Strip(Tail(clean))
        ELSE clean

\* the messages _validate_mermaid_with_cli returns
\* mutant: the skip message spells the marker the stage looks for
MsgSkippedMarked == <<"mmdc", "not", "found", ".", "Skipping", "CLI", "validation", ".">>

\* line 190
MsgSkipped == <<"mmdc", "(Mermaid", "CLI)", "not", "found", ".",
                "Skipping", "CLI", "validation", ".">>
MsgEmpty == <<"Mermaid", "script", "is", "empty", "after", "removing", "fences", ".">>
MsgValidated == <<"Mermaid", "script", "validated", "successfully", "with", "mmdc", ".">>
MsgFailed(returncode, error_output) ==
    <<"Mermaid", "script", "validation", "failed", "with", "mmdc", ".",
      "Return", "code", ":", returncode, ".", "Error", ":">> \o Strip(error_output)
MsgGone == <<"mmdc", "command", "not", "found", "during", "execution", ".">>
MsgTimedOut == <<"Mermaid", "script", "validation", "with", "mmdc", "timed", "out", ".">>
MsgUnexpected(e) ==
    <<"An", "unexpected", "error", "occurred", "during", "mmdc", "validation", ":">> \o e

\* the substrings _generate_solution_architecture_mermaid looks for in cli_message
NotFoundMark == <<"mmdc", "not", "found">>
TimedOutMark == <<"timed", "out">>
UnexpectedMark == <<"unexpected", "error">>

MsgBasicFailed == <<"Basic", "Mermaid", "syntax", "validation", "failed", ".",
                    "Script", "may", "be", "malformed", ".">>

NoMark(cli_message) ==
    /\ ~Contains(cli_message, NotFoundMark)
    /\ ~Contains(cli_message, TimedOutMark)
    /\ ~Contains(cli_message, UnexpectedMark)

CliFailedError(cli_message) ==
    MermaidValidationError(<<"Mermaid", "CLI", "validation", "failed", ":">> \o cli_message,
                           "TechnicalWriterAgent")

\* mutant: a failed basic check rejects the script whatever Tier 2 says
GateRaiseTier1Rejects(basic_validation_passed, cli_valid, cli_message) ==
    IF ~basic_validation_passed
    THEN MermaidValidationError(MsgBasicFailed, "TechnicalWriterAgent")
    ELSE IF cli_valid \/ ~NoMark(cli_message) THEN NoExc
    ELSE CliFailedError(cli_message)

\* mutant: a timeout or an unexpected error never raises, like a skipped check
GateRaiseLenient(basic_validation_passed, cli_valid, cli_message) ==
    IF cli_valid \/ ~NoMark(cli_message) THEN NoExc ELSE CliFailedError(cli_message)

\* lines 363-372 of _generate_solution_architecture_mermaid: the
\* MermaidValidationError the stage raises (NoExc when it raises none)
GateRaise(basic_validation_passed, cli_valid, cli_message) ==
    IF cli_valid THEN NoExc
    ELSE IF NoMark(cli_message) THEN CliFailedError(cli_message)
    ELSE IF Contains(cli_message, NotFoundMark) THEN NoExc
    ELSE IF ~basic_validation_passed
    THEN MermaidValidationError(MsgBasicFailed, "TechnicalWriterAgent")
    ELSE NoExc

\* lines 358-360 and 368-370: validation_err_str when the stage reaches line 374
ValidationErrStr(basic_validation_passed, cli_valid, cli_message) ==
    IF basic_validation_passed THEN NoneStr
    ELSE IF ~cli_valid /\ Contains(cli_message, NotFoundMark)
    THEN MsgBasicFailed \o <<"CLI", "check", "skipped", ":">> \o cli_message
    ELSE MsgBasicFailed

\* mutant: a successful renderer run clears the basic check's warning
GateReportDropsWarning(basic_validation_passed, cli_valid, cli_message) ==
    IF Contains(cli_message, NotFoundMark) \/ Contains(cli_message, TimedOutMark)
    THEN cli_message
    ELSE IF ~basic_validation_passed /\ cli_valid /\ cli_message # MsgValidated
    THEN MsgBasicFailed
    ELSE NoneStr

\* lines 374-378 of _generate_solution_architecture_mermaid: reportable_error
GateReport(basic_validation_passed, cli_valid, cli_message) ==
    LET validation_err_str == ValidationErrStr(basic_validation_passed, cli_valid, cli_message)
    IN  IF Contains(cli_message, NotFoundMark) \/ Contains(cli_message, TimedOutMark)
        THEN cli_message
        ELSE IF validation_err_str # NoneStr /\ cli_valid
        THEN validation_err_str
        ELSE NoneStr

\* mutant: a rejection is caught by the stage's last except clause and wrapped into a
\* plain generation error
GateDecisionRewrapped(basic_validation_passed, cli_valid, cli_message) ==
    LET e == GateRaise(basic_validation_passed, cli_valid, cli_message)
    IN  [raise |-> IF e = NoExc THEN NoExc
                   ELSE LLMGenerationError(<<"Failed", "to", "generate", "Mermaid", "script", ":">>
                                               \o StrOf(e), "TechnicalWriterAgent", e),
         reportable_error |-> GateReport(basic_validation_passed, cli_valid, cli_message)]

\* lines 362-380 of _generate_solution_architecture_mermaid: what the stage does
\* with the two tiers' results. raise is the MermaidValidationError raised
\* (NoExc when the script is returned), reportable_error the returned diagnostic
GateDecision(basic_validation_passed, cli_valid, cli_message) ==
    [raise |-> GateRaise(basic_validation_passed, cli_valid, cli_message),
     reportable_error |-> GateReport(basic_validation_passed, cli_valid, cli_message)]

\* --------------------------------------------------------------- renderer
\* diagnostic texts the renderer (or an exception) can carry
DiagnosticTexts == {<<>>, <<"Parse", "error">>, <<"navigation", "timed", "out">>,
                    <<"mmdc", "not", "found">>, <<"unexpected", "error">>}

\* what subprocess.run(command, timeout=30) can do
RendererOutcomes ==
    {[kind |-> "exit", returncode |-> "0", stderr |-> <<>>, stdout |-> <<>>]}
      \cup {[kind |-> "exit", returncode |-> "1", stderr |-> e, stdout |-> o] :
               e \in DiagnosticTexts, o \in {<<>>, <<"navigation", "timed", "out">>}}
      \cup {[kind |-> "FileNotFoundError", returncode |-> "", stderr |-> <<>>, stdout |-> <<>>],
            [kind |-> "TimeoutExpired", returncode |-> "", stderr |-> <<>>, stdout |-> <<>>]}
      \cup {[kind |-> "Exception", returncode |-> "", stderr |-> e, stdout |-> <<>>] :
               e \in {<<"Permission", "denied">>, <<"mmdc", "not", "found">>,
                      <<"read", "timed", "out">>}}

NoProcess == [kind |-> "none", returncode |-> "", stderr |-> <<>>, stdout |-> <<>>]

\* mutant: an executable found missing at execution counts as a failed validation
CliResultGoneInvalid(process) ==
    CASE process.kind = "exit" /\ process.returncode = "0" ->
            [valid |-> TRUE, message |-> MsgValidated]
      [] process.kind = "exit" /\ process.returncode # "0" ->
            [valid |-> FALSE,
             message |-> MsgFailed(process.returncode,
                                   IF process.stderr # <<>> THEN process.stderr
                                   ELSE process.stdout)]
      [] process.kind = "FileNotFoundError" ->
            [valid |-> FALSE, message |-> MsgGone]
      [] process.kind = "TimeoutExpired" ->
            [valid |-> FALSE, message |-> MsgTimedOut]
      [] OTHER ->
            [valid |-> FALSE, message |-> MsgUnexpected(process.stderr)]

\* lines 211-233 of _validate_mermaid_with_cli: (cli_valid, cli_message) for one
\* outcome of the renderer invocation
CliResult(process) ==
    CASE process.kind = "exit" /\ process.returncode = "0" ->
            [valid |-> TRUE, message |-> MsgValidated]
      [] process.kind = "exit" /\ process.returncode # "0" ->
            [valid |-> FALSE,
             message |-> MsgFailed(process.returncode,
                                   IF process.stderr # <<>> THEN process.stderr
                                   ELSE process.stdout)]
      [] process.kind = "FileNotFoundError" ->
            [valid |-> TRUE, message |-> MsgGone]
      [] process.kind = "TimeoutExpired" ->
            [valid |-> FALSE, message |-> MsgTimedOut]
      [] OTHER ->
            [valid |-> FALSE, message |-> MsgUnexpected(process.stderr)]

\* ------------------------------------------------------------ OEM trigger
LowerChar(c) ==
    CASE c = "S" -> "s" [] c = "A" -> "a" [] c = "P" -> "p" [] c = "X" -> "x" [] OTHER -> c

\* mutant: the comparison keeps the case of the characters
LowerKeepsCase(name) == name

\* str.lower()
Lower(name) == [i \in 1..Len(name) |-> LowerChar(name[i])]

\* ProposalGenerator._is_oem_technology
IsOemTechnology(technology_name, keywords) ==
    \E k \in 1..Len(keywords) : Contains(Lower(technology_name), Lower(keywords[k]))

\* target technologies the caller passes, spelled one character per token
Technologies == {<<>>, <<"S", "A", "P", " ", "X">>, <<"X">>}

\* contents of config/oem_keywords.json that _load_oem_keywords accepts
KeywordConfigs == {<<>>, << <<"s", "a", "p">> >>}

\* characters of the names and keywords in the calls of _is_oem_technology on its own
NameChars == {"S", "s", "a"}
MatchNames == SeqsUpTo(NameChars, MaxNameLen)
MatchKeywords == SeqsUpTo(NameChars, MaxKeywordLen)
\* keyword lists of none, one and two keywords
MatchKeywordLists ==
    {<<>>} \cup {<<k>> : k \in MatchKeywords}
           \cup {<<k1, k2>> : k1 \in MatchKeywords, k2 \in MatchKeywords}

\* ------------------------------------------------------------ construction
\* config_loader.EXPECTED_PROMPT_KEYS
ExpectedPromptKeys ==
    {"rfp_review", "understanding_requirements", "solution_overview",
     "solution_architecture_text", "solution_architecture_mermaid", "oem_review"}

\* prompt_keys of TechnicalWriterAgent.__init__
WriterPromptKeys == ExpectedPromptKeys \ {"rfp_review"}

\* the replacement fields of DEFAULT_PROMPTS[key], in the order of the template
DefaultFields(key) ==
    CASE key = "rfp_review" -> <<"{context_description}", "{source_text}">>
      [] key = "understanding_requirements" ->
            <<"{chosen_technology}", "{truncated_rfp_text}", "{summary_str}",
              "{requirements_str}">>
      [] key = "solution_overview" ->
            <<"{chosen_technology}", "{understanding_content}", "{summary_str}",
              "{requirements_str}", "{chosen_technology}">>
      [] key = "solution_architecture_text" ->
            <<"{chosen_technology}", "{solution_overview_content}", "{requirements_str}",
              "{chosen_technology}">>
      [] key = "solution_architecture_mermaid" ->
            <<"{solution_architecture_text}", "{chosen_technology}">>
      [] key = "oem_review" ->
            <<"{oem_product_name}", "{summary_str}", "{requirements_str}",
              "{oem_product_name}", "{oem_product_name}">>

\* DEFAULT_PROMPTS[key] of the agent that uses the key: its wording, kept as two
\* tokens, and its replacement fields
DefaultPrompt(key) == <<"default", key>> \o DefaultFields(key)
DefaultPrompts == [key \in ExpectedPromptKeys |-> DefaultPrompt(key)]
NoPrompts == [key \in ExpectedPromptKeys |-> NoneStr]

\* str.format(**args): every replacement field of the template gives way to its
\* argument, which is inserted as it is
RECURSIVE Format(_, _)
Format(template, args) ==
    IF template = <<>> THEN <<>>
    ELSE (IF Head(template) \in DOMAIN args THEN args[Head(template)] ELSE <<Head(template)>>)
            \o Format(Tail(template), args)

\* "\n- ".join(key_requirements)
RECURSIVE JoinRequirements(_)
JoinRequirements(key_requirements) ==
    IF key_requirements = <<>> THEN <<>>
    ELSE IF Len(key_requirements) = 1 THEN Head(key_requirements)
    ELSE Head(key_requirements) \o <<"\n", "- ">> \o JoinRequirements(Tail(key_requirements))

\* requirements_str of the three narrative stages (lines 244, 279, 308)
RequirementsStr(key_requirements) ==
    IF key_requirements = <<>> THEN <<"Not explicitly listed.">>
    ELSE <<"- ">> \o JoinRequirements(key_requirements)

\* summary_str of the first two stages (lines 245, 280)
SummaryStr(rfp_summary) ==
    IF rfp_summary \in {NoneStr, <<>>} THEN <<"No summary provided.">> ELSE rfp_summary

\* mutant: the excerpt of the RFP text is not cut
WholeRfpText(rfp_full_text) == rfp_full_text

\* truncated_rfp_text, lines 246-249
TruncatedRfpText(rfp_full_text) ==
    IF TextLen(rfp_full_text) > max_rfp_text_len
    THEN Slice(rfp_full_text, max_rfp_text_len) \o <<"\n", TruncationNote>>
    ELSE Slice(rfp_full_text, max_rfp_text_len)

\* final_prompt of _generate_understanding_requirements, lines 251-256
UnderstandingPrompt(template, rfp_full_text, rfp_summary, key_requirements, chosen_technology) ==
    Format(template,
           [f \in {"{chosen_technology}", "{truncated_rfp_text}", "{summary_str}",
                    "{requirements_str}"} |->
               CASE f = "{chosen_technology}" -> chosen_technology
                 [] f = "{truncated_rfp_text}" -> TruncatedRfpText(rfp_full_text)
                 [] f = "{summary_str}" -> SummaryStr(rfp_summary)
                 [] f = "{requirements_str}" -> RequirementsStr(key_requirements)])

\* final_prompt of _generate_solution_overview, lines 281-286
OverviewPrompt(template, rfp_summary, key_requirements, chosen_technology, understanding_content) ==
    Format(template,
           [f \in {"{chosen_technology}", "{understanding_content}", "{summary_str}",
                    "{requirements_str}"} |->
               CASE f = "{chosen_technology}" -> chosen_technology
                 [] f = "{understanding_content}" -> understanding_content
                 [] f = "{summary_str}" -> SummaryStr(rfp_summary)
                 [] f = "{requirements_str}" -> RequirementsStr(key_requirements)])

\* mutant: the architecture prompt leaves the overview out
ArchitectureTextPromptWithoutOverview(template, chosen_technology, solution_overview_content, key_requirements) ==
    Format(template,
           [f \in {"{chosen_technology}", "{solution_overview_content}", "{requirements_str}"} |->
               CASE f = "{chosen_technology}" -> chosen_technology
                 [] f = "{solution_overview_content}" -> <<>>
                 [] f = "{requirements_str}" -> RequirementsStr(key_requirements)])

\* final_prompt of _generate_solution_architecture_text, lines 309-313
ArchitectureTextPrompt(template, chosen_technology, solution_overview_content, key_requirements) ==
    Format(template,
           [f \in {"{chosen_technology}", "{solution_overview_content}", "{requirements_str}"} |->
               CASE f = "{chosen_technology}" -> chosen_technology
                 [] f = "{solution_overview_content}" -> solution_overview_content
                 [] f = "{requirements_str}" -> RequirementsStr(key_requirements)])

\* final_prompt of _generate_solution_architecture_mermaid, lines 335-338
MermaidPrompt(template, solution_architecture_text, chosen_technology) ==
    Format(template,
           [f \in {"{solution_architecture_text}", "{chosen_technology}"} |->
               IF f = "{chosen_technology}" THEN chosen_technology
               ELSE solution_architecture_text])

\* final_prompt of generate_oem_review, lines 427-434
OemReviewPrompt(template, oem_product_name, key_requirements, rfp_summary) ==
    Format(template,
           [f \in {"{oem_product_name}", "{summary_str}", "{requirements_str}"} |->
               CASE f = "{oem_product_name}" -> oem_product_name
                 [] f = "{summary_str}" ->
                       IF rfp_summary \in {NoneStr, <<>>} THEN <<>>
                       ELSE <<"\nRFP Summary for context (if available): ">> \o rfp_summary
                 [] f = "{requirements_str}" ->
                       IF key_requirements = <<>> THEN <<>>
                       ELSE <<"\nKey RFP Requirements for context (if available):\n- ">>
                                \o JoinRequirements(key_requirements)])

\* review_rfp, lines 65-78: the document has chunks
HasChunks(rfp_document) == rfp_document.text_chunks \notin {NoChunks, <<>>}

\* mutant: the review is given the whole text of the document
SourceTextIsFullText(rfp_document) == rfp_document.full_text

\* source_text of review_rfp before it is cut, lines 67-74: the first chunk, or the
\* full text of a document without chunks
SourceText(rfp_document) ==
    IF HasChunks(rfp_document) THEN rfp_document.text_chunks[1] ELSE rfp_document.full_text

\* context_description of review_rfp, lines 68-75
ContextDescription(rfp_document) ==
    IF HasChunks(rfp_document)
    THEN <<"the first chunk of a Request for Proposal (RFP)">>
            \o (IF Len(rfp_document.text_chunks) > 1
                THEN <<" (note: this is only the first part of a larger document)">>
                ELSE <<>>)
    ELSE <<"the full Request for Proposal (RFP) text">>

\* lines 81-83: source_text[:max_len]
CutSourceText(source_text) ==
    IF TextLen(source_text) > max_len THEN Slice(source_text, max_len) ELSE source_text

\* final_prompt of review_rfp, lines 86-89
ReviewPrompt(template, rfp_document) ==
    Format(template,
           [f \in {"{context_description}", "{source_text}"} |->
               IF f = "{context_description}" THEN ContextDescription(rfp_document)
               ELSE CutSourceText(SourceText(rfp_document))])

\* JSON values: a string, or a number standing for every value that is not a string
JsonStr(text) == [type |-> "str", text |-> text]
JsonNumber == [type |-> "int", text |-> <<>>]

\* templates that override every prompt and name no replacement field
CustomPrompts == [key \in ExpectedPromptKeys |-> <<"custom", key>>]

\* a prompts.json that overrides every prompt
CustomPromptsJson == [key \in ExpectedPromptKeys |-> JsonStr(CustomPrompts[key])]

\* d without key k
Without(d, k) == [key \in DOMAIN d \ {k} |-> d[key]]

\* the states of config/prompts.json: no file, not JSON, a JSON number, and objects:
\* all overrides, all equal to the defaults, one key missing, one entry or an extra
\* entry that is not a string
PromptFiles ==
    {[kind |-> k, data |-> <<>>] : k \in {"missing", "undecodable", "number"}}
      \cup {[kind |-> "object", data |-> d] :
               d \in {CustomPromptsJson,
                      [key \in ExpectedPromptKeys |-> JsonStr(DefaultPrompt(key))],
                      [key \in ExpectedPromptKeys \cup {"notes"} |->
                          IF key = "notes" THEN JsonNumber ELSE CustomPromptsJson[key]]}
                     \cup {Without(CustomPromptsJson, k) : k \in ExpectedPromptKeys}
                     \cup {[CustomPromptsJson EXCEPT ![k] = JsonNumber] :
                              k \in ExpectedPromptKeys}}

ConfigurationError(msg) == Raised("ConfigurationError", msg)

\* mutant: a key that is missing from the file is not looked for
LoadPromptsAcceptsMissingKeys(file) ==
    IF file.kind # "object" \/ \E k \in DOMAIN file.data : file.data[k].type # "str"
    THEN [raise |-> ConfigurationError(<<"prompts">>), data |-> <<>>]
    ELSE [raise |-> NoExc, data |-> file.data]

\* mutant: the entries of the file that are strings are returned, the others dropped
LoadPromptsKeepsValidEntries(file) ==
    IF file.kind # "object"
    THEN [raise |-> ConfigurationError(<<"prompts">>), data |-> <<>>]
    ELSE [raise |-> NoExc,
          data |-> [key \in {k \in DOMAIN file.data : file.data[k].type = "str"} |->
                       file.data[key]]]

\* config_loader.load_prompts: the dictionary returned, or the ConfigurationError raised
LoadPrompts(file) ==
    IF file.kind = "missing"
    THEN [raise |-> ConfigurationError(<<"Prompts", "file", "not", "found">>), data |-> <<>>]
    ELSE IF file.kind = "undecodable"
    THEN [raise |-> ConfigurationError(<<"Error", "decoding", "JSON">>), data |-> <<>>]
    ELSE IF file.kind # "object"
    THEN [raise |-> ConfigurationError(<<"An", "unexpected", "error", "occurred">>),
          data |-> <<>>]
    ELSE IF \E key \in ExpectedPromptKeys : key \notin DOMAIN file.data
    THEN [raise |-> ConfigurationError(<<"Missing", "essential", "prompt", "keys">>),
          data |-> <<>>]
    ELSE IF \E key \in DOMAIN file.data : file.data[key].type # "str"
    THEN [raise |-> ConfigurationError(<<"Invalid", "type", "for", "prompt">>), data |-> <<>>]
    ELSE [raise |-> NoExc, data |-> file.data]

\* mutant: a failure of load_prompts leaves the agent's constructor
PromptForStrict(loaded, key) ==
    IF loaded.raise # NoExc THEN NoneStr ELSE loaded.data[key].text

\* the template an agent's constructor keeps for key: the loaded one, the default when
\* load_prompts failed (RFPReviewerAgent.__init__ 49-56, TechnicalWriterAgent.__init__
\* 129-153)
PromptFor(loaded, key) ==
    IF loaded.raise # NoExc \/ key \notin DOMAIN loaded.data
    THEN DefaultPrompt(key)
    ELSE loaded.data[key].text

\* the states of config/oem_keywords.json: no file, not JSON, a JSON array, and objects
\* without the key, with a string, with lists of strings (empty, one keyword) and with
\* a list holding a number
KeywordFiles ==
    {[kind |-> k, keywords |-> JsonNumber] : k \in {"missing", "undecodable", "array", "no_key"}}
      \cup {[kind |-> "object", keywords |-> v] :
               v \in {JsonStr(<<"s", "a", "p">>),
                      [type |-> "list", items |-> <<>>],
                      [type |-> "list", items |-> <<JsonStr(<<"s", "a", "p">>)>>],
                      [type |-> "list", items |-> <<JsonStr(<<"s", "a", "p">>), JsonNumber>>]}}

\* ProposalGenerator._load_oem_keywords: the list returned, or the ConfigurationError
LoadOemKeywords(file) ==
    IF file.kind = "missing"
    THEN [raise |-> ConfigurationError(<<"OEM", "keywords", "file", "not", "found">>),
          keywords |-> <<>>]
    ELSE IF file.kind = "undecodable"
    THEN [raise |-> ConfigurationError(<<"Error", "decoding", "JSON">>), keywords |-> <<>>]
    ELSE IF /\ file.kind = "object"
            /\ file.keywords.type = "list"
            /\ \A i \in 1..Len(file.keywords.items) : file.keywords.items[i].type = "str"
    THEN [raise |-> NoExc,
          keywords |-> [i \in 1..Len(file.keywords.items) |-> file.keywords.items[i].text]]
    ELSE [raise |-> ConfigurationError(<<"An", "unexpected", "error", "occurred">>),
          keywords |-> <<>>]

\* what subprocess.run(["mmdc", "--version"], check=True) can do
ProbeOutcomes == {"exit0", "CalledProcessError", "FileNotFoundError", "PermissionError"}

\* TechnicalWriterAgent._find_mmdc_path: the path found (TRUE for "mmdc", FALSE for
\* None), or the exception that leaves it
FindMmdcPath(probe) ==
    IF probe = "exit0" THEN [raise |-> NoExc, path |-> TRUE]
    ELSE IF probe \in {"CalledProcessError", "FileNotFoundError"}
    THEN [raise |-> NoExc, path |-> FALSE]
    ELSE [raise |-> Raised(probe, <<"Permission", "denied">>), path |-> FALSE]

\* the environment once construction is over: the files are not read again
NoEnv == [api_key |-> TRUE, prompts_json |-> [kind |-> "unread"],
          oem_keywords_json |-> [kind |-> "unread"], mmdc_probe |-> "done"]

NoRuns == <<>>

\* ------------------------------------------------------------------- state
Agent == "TechnicalWriterAgent"

NoContent ==
    [understanding_requirements_content |-> NoneStr,
     solution_overview_content |-> NoneStr,
     solution_architecture_descriptive_text |-> NoneStr,
     solution_architecture_mermaid_script |-> NoneStr,
     mermaid_validation_error |-> NoneStr]

NoGate ==
    [raw |-> NoneStr, mermaid_script |-> NoneStr, basic_validation_passed |-> FALSE,
     tier2 |-> "none", process |-> NoProcess, cli_valid |-> FALSE, cli_message |-> <<>>,
     temp_mmd_file |-> FALSE, temp_svg_file |-> FALSE]

NoRfp ==
    [full_text |-> NoneStr, text_chunks |-> NoChunks, summary |-> NoneStr,
     key_requirements |-> <<>>]

\* no Proposal has been assembled
NoProposal == [target_technology |-> NoneStr]

\* generate_proposal, step 5: the Proposal assembled from the TechnicalContentSet and
\* the OEM reviews
AssembleProposal(target_technology, technical_content_set, reviews) ==
    [target_technology |-> target_technology,
     understanding_requirements |-> technical_content_set.understanding_requirements_content,
     solution_overview |-> technical_content_set.solution_overview_content,
     solution_architecture |->
         [descriptive_text |-> technical_content_set.solution_architecture_descriptive_text,
          mermaid_script |-> technical_content_set.solution_architecture_mermaid_script],
     oem_solution_reviews |-> reviews]

\* the state after construction of ProposalGenerator and its agents
Init ==
    /\ pc = "RFPParsing"
    /\ mmdc_path \in BOOLEAN
    /\ oem_keywords \in KeywordConfigs
    /\ technology \in Technologies
    /\ rfp = NoRfp
    /\ calls = <<>>
    /\ sent = <<>>
    /\ content = NoContent
    /\ gate = NoGate
    /\ scratch = {}
    /\ is_oem = NoneStr
    /\ oem_reviews_list = <<>>
    /\ proposal = NoProposal
    /\ env = NoEnv
    /\ prompts = DefaultPrompts
    /\ runs = NoRuns
    /\ error = NoError

\* generate_proposal raises ProposalGenerationError(stage, original_exception)
Abort(stage, e) ==
    /\ pc' = "Failed"
    /\ error' = ProposalGenerationError(stage, e)

\* an exception leaves generate_proposal unwrapped
Escape(e) ==
    /\ pc' = "Failed"
    /\ error' = Uncaught(e)

\* final_prompt of the call a stage is about to make, built from the state of the run:
\* review_rfp is given the document, generate_all_technical_content its text, summary
\* and requirements (generator.py 130-136), generate_oem_review the technology name
\* with the requirements and the summary (generator.py 147-151)
StagePrompt(stage) ==
    CASE stage = "RFPReview" -> ReviewPrompt(prompts["rfp_review"], rfp)
      [] stage = "Understanding" ->
            UnderstandingPrompt(prompts["understanding_requirements"], rfp.full_text,
                                rfp.summary, rfp.key_requirements, technology)
      [] stage = "Overview" ->
            OverviewPrompt(prompts["solution_overview"], rfp.summary, rfp.key_requirements,
                           technology, content.understanding_requirements_content)
      [] stage = "ArchitectureNarrative" ->
            ArchitectureTextPrompt(prompts["solution_architecture_text"], technology,
                                   content.solution_overview_content, rfp.key_requirements)
      [] stage = "ArchitectureDiagram" ->
            MermaidPrompt(prompts["solution_architecture_mermaid"],
                          content.solution_architecture_descriptive_text, technology)
      [] stage = "OEMReview" ->
            OemReviewPrompt(prompts["oem_review"], technology, rfp.key_requirements,
                            rfp.summary)

\* ------------------------------------------------------ step 1: parsing
ParseOutcomes ==
    {[kind |-> k, text |-> <<>>] : k \in {"FileNotFoundError", "ValueError", "RFPParserError"}}
      \cup {[kind |-> "text", text |-> t] : t \in {<<>>, <<" ">>, <<"RFP", "text">>}}

\* mutant: only an empty text counts as no content
UsableTextNonEmpty(full_text) == full_text # <<>>

\* generate_proposal, line 92: the parsed text is not empty and not only whitespace
UsableText(full_text) == full_text # <<>> /\ Strip(full_text) # <<>>

\* generate_proposal, step 1
ParseRFP ==
    /\ pc = "RFPParsing"
    /\ \E r \in ParseOutcomes :
          CASE r.kind = "FileNotFoundError" ->
                  /\ Abort("RFP Parsing", Raised("FileNotFoundError", <<>>))
                  /\ UNCHANGED rfp
            [] r.kind = "RFPParserError" ->
                  /\ Abort("RFP Parsing", Raised("RFPParserError", <<>>))
                  /\ UNCHANGED rfp
            [] r.kind = "ValueError" ->
                  /\ Escape(Raised("ValueError", <<"Unsupported", "file", "type">>))
                  /\ UNCHANGED rfp
            [] OTHER ->
                  IF ~UsableText(r.text)
                  THEN /\ Abort("RFP Parsing", Raised("RFPParserError", <<>>))
                       /\ UNCHANGED rfp
                  ELSE /\ pc' = "RFPReview"
                       /\ rfp' = [rfp EXCEPT !.full_text = r.text,
                                                !.text_chunks = TextChunks(r.text)]
                       /\ UNCHANGED error
    /\ UNCHANGED <<mmdc_path, oem_keywords, is_oem, proposal,
                   technology, calls, sent, content, gate, scratch,
                   oem_reviews_list, env, prompts, runs>>

\* ------------------------------------------------------- step 2: review
ReviewOutputs ==
    {[summary |-> <<"Client", "needs", "a", "CRM">>,
      key_requirements |-> << <<"mobile", "access">>, <<"reporting">> >>],
     [summary |-> <<>>, key_requirements |-> <<>>]}

ReviewOutcomes ==
    {[kind |-> "raise", output |-> [summary |-> <<>>, key_requirements |-> <<>>]],
     [kind |-> "none", output |-> [summary |-> <<>>, key_requirements |-> <<>>]]}
      \cup {[kind |-> "output", output |-> o] : o \in ReviewOutputs}

\* generate_proposal, step 2: RFPReviewerAgent.review_rfp. A document without chunks
\* and without text is refused before the oracle is called (line 78)
ReviewRFP ==
    /\ pc = "RFPReview"
    /\ IF ~HasChunks(rfp) /\ rfp.full_text \in {NoneStr, <<>>}
       THEN /\ Escape(Raised("ValueError", <<"RFP", "document", "has", "no", "full_text",
                                              "or", "text_chunks", "to", "review">>))
            /\ UNCHANGED <<calls, sent, rfp>>
       ELSE /\ calls' = Append(calls, "RFPReview")
            /\ sent' = Append(sent, StagePrompt("RFPReview"))
            /\ \E r \in ReviewOutcomes :
                  IF r.kind = "output"
                  THEN /\ rfp' = [rfp EXCEPT !.summary = r.output.summary,
                                             !.key_requirements = r.output.key_requirements]
                       /\ pc' = "Understanding"
                       /\ UNCHANGED error
                  ELSE /\ Abort("RFP Review",
                                LLMGenerationError(<<"Failed", "to", "review", "RFP">>,
                                                   "RFPReviewerAgent",
                                                   IF r.kind = "raise"
                                                   THEN Raised("Exception", OracleError)
                                                   ELSE Raised("LLMGenerationError", <<>>)))
                       /\ UNCHANGED rfp
    /\ UNCHANGED <<mmdc_path, oem_keywords, is_oem, proposal,
                   technology, content, gate, scratch,
                   oem_reviews_list, env, prompts, runs>>

\* ------------------------------------- step 3: the four core stages
CoreStages == <<"Understanding", "Overview", "ArchitectureNarrative", "ArchitectureDiagram">>

\* the exception that leaves a narrative stage function when its oracle call fails:
\* the LLMGenerationError raised in the try block for an empty result is caught by
\* the function's own "except Exception" and wrapped once more
NarrativeFailure(r, what) ==
    IF r.kind = "raise"
    THEN LLMGenerationError(<<"Failed", "to", "generate", what, ":">> \o r.text, Agent,
                            Raised("Exception", r.text))
    ELSE LET inner == LLMGenerationError(
                          <<"LLM", "did", "not", "return", "expected", "output", "for", what>>,
                          Agent, NoExc)
         IN  LLMGenerationError(<<"Failed", "to", "generate", what, ":">> \o StrOf(inner),
                                Agent, inner)

\* mutant: the wrapper is tagged with the name of the core stage that failed
TagFailingStage(stage, e) == ProposalGenerationError(stage, e)

\* generate_proposal, lines 138-140: the except clause around
\* generate_all_technical_content; stage is the core stage the exception left
WrapTechnicalContentError(stage, e) ==
    ProposalGenerationError("Technical Content Generation", e)

\* mutant: a failure of a core stage is logged and the run goes on to the OEM review
\* of a matching technology
StageFailsButAugments(stage, e) ==
    /\ pc' = IF IsOemTechnology(technology, oem_keywords) THEN "OEMReview" ELSE "Failed"
    /\ error' = WrapTechnicalContentError(stage, e)

\* a core stage raised e: generate_all_technical_content lets it through and
\* generate_proposal wraps it
StageFails(stage, e) ==
    /\ pc' = "Failed"
    /\ error' = WrapTechnicalContentError(stage, e)

\* mutant: the preconditions are checked after the oracle was called
UnderstandingChecksLate ==
    /\ pc = "Understanding"
    /\ IF rfp.full_text = <<>> /\ rfp.summary = <<>> /\ rfp.key_requirements = <<>>
       THEN /\ Escape(Raised("ValueError", <<"Some", "RFP", "context", "must", "be", "provided">>))
            /\ calls' = Append(calls, "Understanding")
            /\ sent' = Append(sent, StagePrompt("Understanding"))
            /\ UNCHANGED content
       ELSE IF technology = <<>>
       THEN /\ Escape(Raised("ValueError", <<"A", "chosen", "technology", "must", "be", "specified">>))
            /\ calls' = Append(calls, "Understanding")
            /\ sent' = Append(sent, StagePrompt("Understanding"))
            /\ UNCHANGED content
       ELSE /\ calls' = Append(calls, "Understanding")
            /\ sent' = Append(sent, StagePrompt("Understanding"))
            /\ \E r \in OracleOutcomes(NarrativeTexts) :
                  IF HasContent(r)
                  THEN /\ content' = [content EXCEPT !.understanding_requirements_content = r.text]
                       /\ pc' = "Overview"
                       /\ UNCHANGED error
                  ELSE /\ StageFails("Understanding", NarrativeFailure(r, "understanding of requirements"))
                       /\ UNCHANGED content
    /\ UNCHANGED <<mmdc_path, oem_keywords, is_oem, proposal,
                   technology, rfp, gate, scratch, oem_reviews_list, env, prompts, runs>>

\* generate_all_technical_content, lines 395-402, and _generate_understanding_requirements
Understanding ==
    /\ pc = "Understanding"
    /\ IF rfp.full_text = <<>> /\ rfp.summary = <<>> /\ rfp.key_requirements = <<>>
       THEN /\ Escape(Raised("ValueError", <<"Some", "RFP", "context", "must", "be", "provided">>))
            /\ UNCHANGED <<calls, sent, content>>
       ELSE IF technology = <<>>
       THEN /\ Escape(Raised("ValueError", <<"A", "chosen", "technology", "must", "be", "specified">>))
            /\ UNCHANGED <<calls, sent, content>>
       ELSE /\ calls' = Append(calls, "Understanding")
            /\ sent' = Append(sent, StagePrompt("Understanding"))
            /\ \E r \in OracleOutcomes(NarrativeTexts) :
                  IF HasContent(r)
                  THEN /\ content' = [content EXCEPT !.understanding_requirements_content = r.text]
                       /\ pc' = "Overview"
                       /\ UNCHANGED error
                  ELSE /\ StageFails("Understanding", NarrativeFailure(r, "understanding of requirements"))
                       /\ UNCHANGED content
    /\ UNCHANGED <<mmdc_path, oem_keywords, is_oem, proposal,
                   technology, rfp, gate, scratch, oem_reviews_list, env, prompts, runs>>

\* mutant: a failed overview is logged and the run goes on to the next stage
OverviewSwallowsFailure ==
    /\ pc = "Overview"
    /\ calls' = Append(calls, "Overview")
    /\ sent' = Append(sent, StagePrompt("Overview"))
    /\ \E r \in OracleOutcomes(NarrativeTexts) :
          /\ content' = IF HasContent(r)
                        THEN [content EXCEPT !.solution_overview_content = r.text]
                        ELSE content
          /\ pc' = "ArchitectureNarrative"
          /\ UNCHANGED error
    /\ UNCHANGED <<mmdc_path, oem_keywords, is_oem, proposal,
                   technology, rfp, gate, scratch, oem_reviews_list, env, prompts, runs>>

\* mutant: a failed oracle call is made once more before the stage gives up
OverviewRetries ==
    /\ pc = "Overview"
    /\ \E r \in OracleOutcomes(NarrativeTexts) :
          IF HasContent(r)
          THEN /\ calls' = Append(calls, "Overview")
               /\ sent' = Append(sent, StagePrompt("Overview"))
               /\ content' = [content EXCEPT !.solution_overview_content = r.text]
               /\ pc' = "ArchitectureNarrative"
               /\ UNCHANGED error
          ELSE /\ calls' = calls \o <<"Overview", "Overview">>
               /\ sent' = sent \o <<StagePrompt("Overview"), StagePrompt("Overview")>>
               /\ StageFails("Overview", NarrativeFailure(r, "solution overview"))
               /\ UNCHANGED content
    /\ UNCHANGED <<mmdc_path, oem_keywords, is_oem, proposal,
                   technology, rfp, gate, scratch, oem_reviews_list, env, prompts, runs>>

\* generate_all_technical_content, lines 403-405, and _generate_solution_overview
Overview ==
    /\ pc = "Overview"
    /\ calls' = Append(calls, "Overview")
    /\ sent' = Append(sent, StagePrompt("Overview"))
    /\ \E r \in OracleOutcomes(NarrativeTexts) :
          IF HasContent(r)
          THEN /\ content' = [content EXCEPT !.solution_overview_content = r.text]
               /\ pc' = "ArchitectureNarrative"
               /\ UNCHANGED error
          ELSE /\ StageFails("Overview", NarrativeFailure(r, "solution overview"))
               /\ UNCHANGED content
    /\ UNCHANGED <<mmdc_path, oem_keywords, is_oem, proposal,
                   technology, rfp, gate, scratch, oem_reviews_list, env, prompts, runs>>

\* generate_all_technical_content, lines 406-408, and _generate_solution_architecture_text
ArchitectureNarrative ==
    /\ pc = "ArchitectureNarrative"
    /\ calls' = Append(calls, "ArchitectureNarrative")
    /\ sent' = Append(sent, StagePrompt("ArchitectureNarrative"))
    /\ \E r \in OracleOutcomes(NarrativeTexts) :
          IF HasContent(r)
          THEN /\ content' = [content EXCEPT !.solution_architecture_descriptive_text = r.text]
               /\ pc' = "ArchitectureDiagram"
               /\ UNCHANGED error
          ELSE /\ StageFails("ArchitectureNarrative",
                             NarrativeFailure(r, "solution architecture text"))
               /\ UNCHANGED content
    /\ UNCHANGED <<mmdc_path, oem_keywords, is_oem, proposal,
                   technology, rfp, gate, scratch, oem_reviews_list, env, prompts, runs>>

\* ------------------------------------------ the diagram stage and its gate
\* tokens of the diagram scripts the oracle returns
ScriptTokens == {FenceOpen, FenceClose, "graph", " ", "TD", "pie", "[", "]"}

GateScripts == SeqsUpTo(ScriptTokens, MaxScriptLen) \ {<<>>}
RunScripts == SeqsUpTo(ScriptTokens, MaxRunScriptLen) \ {<<>>}

\* the exception that leaves _generate_solution_architecture_mermaid when its oracle
\* call fails: the LLMGenerationError for an empty script is re-raised as it is
DiagramFailure(r) ==
    IF r.kind = "raise"
    THEN LLMGenerationError(<<"Failed", "to", "generate", "Mermaid", "script", ":">> \o r.text,
                            Agent, Raised("Exception", r.text))
    ELSE LLMGenerationError(
             <<"LLM", "did", "not", "return", "expected", "output", "for", "Mermaid", "diagram">>,
             Agent, NoExc)

\* a variant of CompleteDiagram that goes on to the OEM review whatever the technology
CompleteDiagramAlwaysAugments(script, basic_validation_passed, cli) ==
    LET d == GateDecision(basic_validation_passed, cli.valid, cli.message)
    IN  IF d.raise # NoExc
        THEN /\ StageFails("ArchitectureDiagram", d.raise)
             /\ UNCHANGED <<content, is_oem, proposal>>
        ELSE /\ content' = [content EXCEPT
                               !.solution_architecture_mermaid_script = script,
                               !.mermaid_validation_error = d.reportable_error]
             /\ is_oem' = TRUE
             /\ pc' = "OEMReview"
             /\ UNCHANGED <<proposal, error>>

\* lines 362-380 and 412-418, then generate_proposal up to its next oracle call:
\* the stage raises, or returns (script, reportable_error) and the run goes on
CompleteDiagram(script, basic_validation_passed, cli) ==
    LET d == GateDecision(basic_validation_passed, cli.valid, cli.message)
    IN  IF d.raise # NoExc
        THEN /\ StageFails("ArchitectureDiagram", d.raise)
             /\ UNCHANGED <<content, is_oem, proposal>>
        ELSE /\ content' = [content EXCEPT
                               !.solution_architecture_mermaid_script = script,
                               !.mermaid_validation_error = d.reportable_error]
             /\ is_oem' = IsOemTechnology(technology, oem_keywords)
             /\ IF is_oem'
                THEN /\ pc' = "OEMReview"
                     /\ UNCHANGED proposal
                ELSE /\ pc' = "Done"
                     /\ proposal' = AssembleProposal(technology, content', oem_reviews_list)
             /\ UNCHANGED error

\* what can go wrong while the two scratch artifacts are created (lines 205-209)
TempFailures == {"none", "create_in", "write_in", "create_out"}

\* generate_all_technical_content, lines 409-411: _generate_solution_architecture_mermaid
\* from its oracle call to the renderer invocation (or to its end when Tier 2 does
\* not invoke the renderer)
DiagramStage(scripts) ==
    /\ pc = "ArchitectureDiagram"
    /\ calls' = Append(calls, "ArchitectureDiagram")
    /\ sent' = Append(sent, StagePrompt("ArchitectureDiagram"))
    /\ \E r \in OracleOutcomes(scripts) :
          IF ~HasContent(r)
          THEN /\ StageFails("ArchitectureDiagram", DiagramFailure(r))
               /\ UNCHANGED <<content, gate, scratch, is_oem, proposal>>
          ELSE LET mermaid_script == AddFences(r.text)
                   basic == ValidateMermaidBasic(mermaid_script)
                   g == [NoGate EXCEPT !.raw = r.text, !.mermaid_script = mermaid_script,
                                       !.basic_validation_passed = basic]
               IN  IF ~mmdc_path
                   THEN /\ gate' = [g EXCEPT !.tier2 = "skipped", !.cli_valid = TRUE,
                                             !.cli_message = MsgSkipped]
                        /\ CompleteDiagram(mermaid_script, basic,
                                           [valid |-> TRUE, message |-> MsgSkipped])
                        /\ UNCHANGED scratch
                   ELSE IF CleanScript(mermaid_script) = <<>>
                   THEN /\ gate' = [g EXCEPT !.tier2 = "empty", !.cli_valid = FALSE,
                                             !.cli_message = MsgEmpty]
                        /\ CompleteDiagram(mermaid_script, basic,
                                           [valid |-> FALSE, message |-> MsgEmpty])
                        /\ UNCHANGED scratch
                   ELSE \E t \in TempFailures :
                          IF t = "none"
                          THEN /\ gate' = [g EXCEPT !.temp_mmd_file = TRUE,
                                                    !.temp_svg_file = TRUE]
                               /\ scratch' = scratch \cup {"mmd", "svg"}
                               /\ pc' = "Rendering"
                               /\ UNCHANGED <<content, is_oem, proposal, error>>
                          ELSE LET msg == MsgUnexpected(<<"No", "space", "left", "on", "device">>)
                               IN  /\ gate' = [g EXCEPT !.tier2 = "unexpected",
                                                        !.cli_valid = FALSE,
                                                        !.cli_message = msg]
                                   /\ scratch' = IF t = "write_in"
                                                 THEN scratch \cup {"mmd"}
                                                 ELSE scratch
                                   /\ CompleteDiagram(mermaid_script, basic,
                                                      [valid |-> FALSE, message |-> msg])
    /\ UNCHANGED <<mmdc_path, oem_keywords, technology, rfp, oem_reviews_list, env, prompts, runs>>

ArchitectureDiagram == DiagramStage(RunScripts)

\* the diagram stage of a run whose oracle may return any script of the gate's bound
GateDiagram == DiagramStage(GateScripts)

Tier2Kind(process) ==
    CASE process.kind = "exit" /\ process.returncode = "0" -> "exit0"
      [] process.kind = "exit" -> "nonzero"
      [] process.kind = "FileNotFoundError" -> "gone"
      [] process.kind = "TimeoutExpired" -> "timeout"
      [] OTHER -> "unexpected"

\* _validate_mermaid_with_cli from the return of subprocess.run (lines 211-238), then
\* the rest of the diagram stage
RendererReturns ==
    /\ pc = "Rendering"
    /\ \E process \in RendererOutcomes :
          LET cli == CliResult(process)
          IN  /\ mmdc_path' = IF process.kind = "FileNotFoundError" THEN FALSE ELSE mmdc_path
              /\ gate' = [gate EXCEPT !.tier2 = Tier2Kind(process), !.process = process,
                                      !.cli_valid = cli.valid, !.cli_message = cli.message]
              /\ scratch' = scratch \ ((IF gate.temp_mmd_file THEN {"mmd"} ELSE {})
                                         \cup (IF gate.temp_svg_file THEN {"svg"} ELSE {}))
              /\ CompleteDiagram(gate.mermaid_script, gate.basic_validation_passed, cli)
    /\ UNCHANGED <<oem_keywords, technology, rfp, calls, sent, oem_reviews_list, env, prompts, runs>>

\* ------------------------------------------------- step 4a: OEM review
\* the default title of an OEMSolutionReview
DefaultReviewTitle == <<"OEM Product Overview">>

OemOutcomes ==
    {[kind |-> "raise", title |-> <<>>, content |-> OracleError],
     [kind |-> "none", title |-> <<>>, content |-> <<>>]}
      \cup {[kind |-> "output", title |-> t, content |-> c] :
               t \in {<<>>, DefaultReviewTitle, <<"A", "great", "product">>},
               c \in {<<>>, <<"review">>}}

\* mutant: the title is left as the oracle returned it
ReviewTitleAsReturned(title, oem_product_name) == title

\* generate_oem_review, lines 443-444: the title of the returned review
ReviewTitle(title, oem_product_name) ==
    IF title = <<>> \/ title = DefaultReviewTitle
    THEN <<"Overview:", " ">> \o oem_product_name
    ELSE title

\* generate_proposal, lines 143-188: TechnicalWriterAgent.generate_oem_review, then the
\* assembly of the Proposal
OEMReview ==
    /\ pc = "OEMReview"
    /\ calls' = Append(calls, "OEMReview")
    /\ sent' = Append(sent, StagePrompt("OEMReview"))
    /\ \E r \in OemOutcomes :
          IF r.kind = "output" /\ r.content # <<>>
          THEN /\ oem_reviews_list' =
                     << [oem_product_name |-> technology,
                         title |-> ReviewTitle(r.title, technology),
                         content |-> r.content] >>
               /\ proposal' = AssembleProposal(technology, content, oem_reviews_list')
               /\ pc' = "Done"
               /\ UNCHANGED error
          ELSE /\ Abort("OEM Review Generation",
                        LLMGenerationError(<<"Failed", "to", "generate", "OEM", "review">>, Agent,
                                           IF r.kind = "raise"
                                           THEN Raised("Exception", r.content)
                                           ELSE Raised("LLMGenerationError", <<>>)))
               /\ UNCHANGED <<oem_reviews_list, proposal>>
    /\ UNCHANGED <<mmdc_path, oem_keywords, is_oem, technology, rfp, content, gate, scratch,
                   env, prompts, runs>>

\* ------------------------------------------- ProposalGenerator.__init__
\* lines 27-34: the API key is looked for in the environment
CheckApiKey ==
    /\ pc = "CheckApiKey"
    /\ IF env.api_key
       THEN pc' = "RFPReviewerAgent" /\ UNCHANGED error
       ELSE Escape(Raised("ValueError", <<"OPENAI_API_KEY", "not", "found">>))
    /\ UNCHANGED <<mmdc_path, oem_keywords, technology, rfp, calls, sent, content, gate, scratch,
                   is_oem, oem_reviews_list, proposal, env, prompts, runs>>

\* line 37: RFPReviewerAgent.__init__
ConstructRFPReviewerAgent ==
    /\ pc = "RFPReviewerAgent"
    /\ prompts' = [prompts EXCEPT
                      !["rfp_review"] = PromptFor(LoadPrompts(env.prompts_json), "rfp_review")]
    /\ pc' = "TechnicalWriterAgent"
    /\ UNCHANGED <<mmdc_path, oem_keywords, technology, rfp, calls, sent, content, gate, scratch,
                   is_oem, oem_reviews_list, proposal, env, runs, error>>

\* line 38: TechnicalWriterAgent.__init__, the probe of mmdc and the five prompts
ConstructTechnicalWriterAgent ==
    /\ pc = "TechnicalWriterAgent"
    /\ LET found == FindMmdcPath(env.mmdc_probe)
           loaded == LoadPrompts(env.prompts_json)
       IN  IF found.raise # NoExc
           THEN /\ Escape(found.raise)
                /\ UNCHANGED <<mmdc_path, prompts>>
           ELSE /\ mmdc_path' = found.path
                /\ prompts' = [key \in ExpectedPromptKeys |->
                                  IF key \in WriterPromptKeys
                                  THEN PromptFor(loaded, key)
                                  ELSE prompts[key]]
                /\ pc' = "LoadOemKeywords"
                /\ UNCHANGED error
    /\ UNCHANGED <<oem_keywords, technology, rfp, calls, sent, content, gate, scratch,
                   is_oem, oem_reviews_list, proposal, env, runs>>

\* lines 40-45: self.oem_keywords = self._load_oem_keywords()
ConstructOemKeywords ==
    /\ pc = "LoadOemKeywords"
    /\ LET loaded == LoadOemKeywords(env.oem_keywords_json)
       IN  IF loaded.raise # NoExc
           THEN /\ Escape(loaded.raise)
                /\ UNCHANGED oem_keywords
           ELSE /\ oem_keywords' = loaded.keywords
                /\ pc' = "Constructed"
                /\ UNCHANGED error
    /\ UNCHANGED <<mmdc_path, technology, rfp, calls, sent, content, gate, scratch,
                   is_oem, oem_reviews_list, proposal, env, prompts, runs>>

\* ------------------------------- two runs interleaved on one instance
RunIds == {1, 2}

\* the diagram scripts of the interleaved runs: one that passes Tier 1, one that fails
TwoRunScripts == {<<"pie">>, <<"[">>}

\* what the renderer answers when a run invokes it
TwoRunResponses ==
    {p \in RendererOutcomes :
        \/ p.kind \in {"FileNotFoundError", "TimeoutExpired"}
        \/ p.kind = "exit" /\ p.returncode = "0"
        \/ p.kind = "exit" /\ p.stderr = <<"Parse", "error">> /\ p.stdout = <<>>}

\* one run before its first step: the document it is for, the script its oracle will
\* return and the answer the renderer has for it
NewRun(document, script, response) ==
    [pc |-> "RFPParsing", document |-> document, parsed |-> 0, raw |-> script,
     response |-> response, tier2 |-> "none", mermaid_script |-> NoneStr,
     basic_validation_passed |-> FALSE, raise |-> NoExc, reportable_error |-> NoneStr]

\* the end of a run's diagram stage (lines 362-380): it raises or returns
FinishRun(run, tier2, cli) ==
    LET d == GateDecision(run.basic_validation_passed, cli.valid, cli.message)
    IN  [run EXCEPT !.pc = IF d.raise # NoExc THEN "Failed" ELSE "Done",
                    !.tier2 = tier2,
                    !.raise = d.raise,
                    !.reportable_error = d.reportable_error]

\* generate_proposal, lines 90-91, of run i: self.rfp_parser is assigned and used with
\* no suspension in between; the run then awaits its review
ParseOfRun(i) ==
    /\ runs.run[i].pc = "RFPParsing"
    /\ runs' = [runs EXCEPT !.rfp_parser = runs.run[i].document,
                            !.run[i].parsed = runs.run[i].document,
                            !.run[i].pc = "ArchitectureDiagram"]
    /\ UNCHANGED <<pc, mmdc_path, oem_keywords, technology, rfp, calls, sent, content, gate,
                   scratch, is_oem, oem_reviews_list, proposal, env, prompts, error>>

\* the diagram stage of run i from its oracle's answer to the renderer invocation
\* (lines 341-361 and 188-211); the scratch artifacts are created without failure
DiagramOfRun(i) ==
    /\ runs.run[i].pc = "ArchitectureDiagram"
    /\ LET run == runs.run[i]
           mermaid_script == AddFences(run.raw)
           started == [run EXCEPT !.mermaid_script = mermaid_script,
                                  !.basic_validation_passed =
                                      ValidateMermaidBasic(mermaid_script)]
       IN  runs' = [runs EXCEPT !.run[i] =
                       IF ~mmdc_path
                       THEN FinishRun(started, "skipped",
                                      [valid |-> TRUE, message |-> MsgSkipped])
                       ELSE IF CleanScript(mermaid_script) = <<>>
                       THEN FinishRun(started, "empty",
                                      [valid |-> FALSE, message |-> MsgEmpty])
                       ELSE [started EXCEPT !.pc = "Rendering"]]
    /\ UNCHANGED <<pc, mmdc_path, oem_keywords, technology, rfp, calls, sent, content, gate,
                   scratch, is_oem, oem_reviews_list, proposal, env, prompts, error>>

\* mutant: an executable found missing at execution leaves the agent's path as it was
RendererReturnsToRunKeepsPath(i) ==
    /\ runs.run[i].pc = "Rendering"
    /\ LET process == runs.run[i].response
       IN  runs' = [runs EXCEPT !.run[i] =
                       FinishRun(runs.run[i], Tier2Kind(process), CliResult(process))]
    /\ UNCHANGED <<pc, mmdc_path, oem_keywords, technology, rfp, calls, sent, content, gate,
                   scratch, is_oem, oem_reviews_list, proposal, env, prompts, error>>

\* the renderer answers run i (lines 211-233), then the rest of its diagram stage
RendererReturnsToRun(i) ==
    /\ runs.run[i].pc = "Rendering"
    /\ LET process == runs.run[i].response
       IN  /\ mmdc_path' = IF process.kind = "FileNotFoundError" THEN FALSE ELSE mmdc_path
           /\ runs' = [runs EXCEPT !.run[i] =
                          FinishRun(runs.run[i], Tier2Kind(process), CliResult(process))]
    /\ UNCHANGED <<pc, oem_keywords, technology, rfp, calls, sent, content, gate,
                   scratch, is_oem, oem_reviews_list, proposal, env, prompts, error>>

\* ------------------------------------------------------- specifications
Next ==
    \/ ParseRFP
    \/ ReviewRFP
    \/ Understanding
    \/ Overview
    \/ ArchitectureNarrative
    \/ ArchitectureDiagram
    \/ RendererReturns
    \/ OEMReview

\* one run of generate_proposal on a constructed generator
Spec == Init /\ [][Next]_vars

\* a run that has reached the diagram stage: the three narrative stages returned
\* the document of the gate runs: parsed, and reviewed without a finding
GateRfp ==
    [full_text |-> <<"RFP", "text">>, text_chunks |-> << <<"RFP", "text">> >>,
     summary |-> <<>>, key_requirements |-> <<>>]

InitGate ==
    /\ pc = "ArchitectureDiagram"
    /\ mmdc_path \in BOOLEAN
    /\ oem_keywords = <<>>
    /\ technology = <<"X">>
    /\ rfp = GateRfp
    /\ calls = <<"RFPReview", "Understanding", "Overview", "ArchitectureNarrative">>
    /\ sent = <<ReviewPrompt(DefaultPrompt("rfp_review"), GateRfp),
                UnderstandingPrompt(DefaultPrompt("understanding_requirements"),
                                    GateRfp.full_text, <<>>, <<>>, <<"X">>),
                OverviewPrompt(DefaultPrompt("solution_overview"), <<>>, <<>>, <<"X">>,
                               <<"narrative">>),
                ArchitectureTextPrompt(DefaultPrompt("solution_architecture_text"), <<"X">>,
                                       <<"narrative">>, <<>>)>>
    /\ content = [NoContent EXCEPT
                     !.understanding_requirements_content = <<"narrative">>,
                     !.solution_overview_content = <<"narrative">>,
                     !.solution_architecture_descriptive_text = <<"narrative">>]
    /\ gate = NoGate
    /\ scratch = {}
    /\ is_oem = NoneStr
    /\ oem_reviews_list = <<>>
    /\ proposal = NoProposal
    /\ env = NoEnv
    /\ prompts = DefaultPrompts
    /\ runs = NoRuns
    /\ error = NoError

NextGate ==
    \/ GateDiagram
    \/ RendererReturns

\* the diagram stage alone, over every script of the gate's bound
SpecGate == InitGate /\ [][NextGate]_vars

\* the contexts generate_all_technical_content is called with
RunContexts ==
    {[full_text |-> f, text_chunks |-> NoChunks, summary |-> o.summary,
      key_requirements |-> o.key_requirements] :
        f \in {<<>>, <<"RFP", "text">>}, o \in ReviewOutputs}

\* a direct call of generate_all_technical_content, with any context and technology
InitRun ==
    /\ pc = "Understanding"
    /\ mmdc_path \in BOOLEAN
    /\ oem_keywords = <<>>
    /\ technology \in Technologies
    /\ rfp \in RunContexts
    /\ calls = <<>>
    /\ sent = <<>>
    /\ content = NoContent
    /\ gate = NoGate
    /\ scratch = {}
    /\ is_oem = NoneStr
    /\ oem_reviews_list = <<>>
    /\ proposal = NoProposal
    /\ env = NoEnv
    /\ prompts \in {DefaultPrompts, CustomPrompts}
    /\ runs = NoRuns
    /\ error = NoError

NextRun ==
    \/ Understanding
    \/ Overview
    \/ ArchitectureNarrative
    \/ ArchitectureDiagram
    \/ RendererReturns

\* generate_all_technical_content called on its own
SpecRun == InitRun /\ [][NextRun]_vars

\* two runs, for two documents, about to start on one constructed generator
InitTwoRuns ==
    /\ pc = "TwoRuns"
    /\ mmdc_path \in BOOLEAN
    /\ runs \in [rfp_parser : {0}, mmdc_path_found : {mmdc_path},
                  run : {<<NewRun(1, s1, r1), NewRun(2, s2, r2)>> :
                            s1 \in TwoRunScripts, r1 \in TwoRunResponses,
                            s2 \in TwoRunScripts, r2 \in TwoRunResponses}]
    /\ oem_keywords = <<>>
    /\ technology = <<"X">>
    /\ rfp = NoRfp
    /\ calls = <<>>
    /\ sent = <<>>
    /\ content = NoContent
    /\ gate = NoGate
    /\ scratch = {}
    /\ is_oem = NoneStr
    /\ oem_reviews_list = <<>>
    /\ proposal = NoProposal
    /\ env = NoEnv
    /\ prompts = DefaultPrompts
    /\ error = NoError

NextTwoRuns ==
    \/ \E i \in RunIds : ParseOfRun(i)
    \/ \E i \in RunIds : DiagramOfRun(i)
    \/ \E i \in RunIds : RendererReturnsToRun(i)

\* two runs of generate_proposal interleaved on one instance
SpecTwoRuns == InitTwoRuns /\ [][NextTwoRuns]_vars

\* the start of ProposalGenerator(), in any environment
InitConstruct ==
    /\ pc = "CheckApiKey"
    /\ env \in [api_key : BOOLEAN, prompts_json : PromptFiles,
                 oem_keywords_json : KeywordFiles, mmdc_probe : ProbeOutcomes]
    /\ mmdc_path = FALSE
    /\ oem_keywords = <<>>
    /\ prompts = NoPrompts
    /\ technology = <<>>
    /\ rfp = NoRfp
    /\ calls = <<>>
    /\ sent = <<>>
    /\ content = NoContent
    /\ gate = NoGate
    /\ scratch = {}
    /\ is_oem = NoneStr
    /\ oem_reviews_list = <<>>
    /\ proposal = NoProposal
    /\ runs = NoRuns
    /\ error = NoError

NextConstruct ==
    \/ CheckApiKey
    \/ ConstructRFPReviewerAgent
    \/ ConstructTechnicalWriterAgent
    \/ ConstructOemKeywords

\* the construction of the pipeline
SpecConstruct == InitConstruct /\ [][NextConstruct]_vars

\* a generator constructed with any keyword list, about to be asked about any name
InitMatch ==
    /\ pc = "IsOemTechnology"
    /\ mmdc_path = FALSE
    /\ oem_keywords \in MatchKeywordLists
    /\ technology \in MatchNames
    /\ rfp = NoRfp
    /\ calls = <<>>
    /\ sent = <<>>
    /\ content = NoContent
    /\ gate = NoGate
    /\ scratch = {}
    /\ is_oem = NoneStr
    /\ oem_reviews_list = <<>>
    /\ proposal = NoProposal
    /\ env = NoEnv
    /\ prompts = DefaultPrompts
    /\ runs = NoRuns
    /\ error = NoError

\* one call of ProposalGenerator._is_oem_technology
CallIsOemTechnology ==
    /\ pc = "IsOemTechnology"
    /\ is_oem' = IsOemTechnology(technology, oem_keywords)
    /\ pc' = "Returned"
    /\ UNCHANGED <<mmdc_path, oem_keywords, technology, rfp, calls, sent, content, gate, scratch,
                   oem_reviews_list, proposal, error, env, prompts, runs>>

NextMatch == CallIsOemTechnology

\* _is_oem_technology alone, over every name and keyword list of its bounds
SpecMatch == InitMatch /\ [][NextMatch]_vars

\* ----------------------------------------------------------------- claims
CoreStageNames == {CoreStages[i] : i \in 1..Len(CoreStages)}
IsCoreStage(c) == c \in CoreStageNames

\* the oracle calls of generate_all_technical_content, in order
CoreCalls == SelectSeq(calls, IsCoreStage)

\* generate_all_technical_content has returned its TechnicalContentSet
ContentReturned == content.solution_architecture_mermaid_script # NoneStr

\* the diagram stage returned its script to the caller
ScriptReturned ==
    /\ error = NoError
    /\ content.solution_architecture_mermaid_script = gate.mermaid_script

\* the diagram stage raised a MermaidValidationError
ValidationErrorRaised ==
    /\ pc = "Failed"
    /\ error.original_exception.type = "MermaidValidationError"

\* the run failed inside one of the four core stages: its last oracle call was a
\* core stage's and the failure reached the caller wrapped
FailedInCoreStage ==
    /\ pc = "Failed"
    /\ error.type = "ProposalGenerationError"
    /\ calls # <<>>
    /\ IsCoreStage(calls[Len(calls)])

StageIndex(p) ==
    CASE p = "Understanding" -> 1
      [] p = "Overview" -> 2
      [] p = "ArchitectureNarrative" -> 3
      [] p \in {"ArchitectureDiagram", "Rendering"} -> 4
      [] OTHER -> 0

\* C2: a step in which core stage k fails leaves exactly the first k core calls made
\* (the failing call is made once), and a failed run makes no further oracle call
C2_FailureStopsTheRun ==
    [][/\ (pc' = "Failed" /\ StageIndex(pc) > 0 /\ error'.type = "ProposalGenerationError")
            => CoreCalls' = SubSeq(CoreStages, 1, StageIndex(pc))
       /\ pc = "Failed" => calls' = calls]_vars

C2_Witness ==
    /\ FailedInCoreStage
    /\ CoreCalls = <<"Understanding", "Overview">>

C4_NonzeroExitRejects ==
    gate.tier2 = "nonzero" => (ValidationErrorRaised /\ ~ContentReturned)

\* C5: when the renderer is not discoverable (absent at construction, or found missing
\* at execution) the stage returns the script and no error, whatever Tier 1 said
C5_AbsentToolNeverRejects ==
    gate.tier2 \in {"skipped", "gone"} => ScriptReturned

C5_Witness ==
    /\ gate.tier2 = "skipped"
    /\ ~gate.basic_validation_passed
    /\ ScriptReturned

C8_RendererOkKeepsWarning ==
    (gate.tier2 = "exit0" /\ ~gate.basic_validation_passed)
        => (ScriptReturned /\ content.mermaid_validation_error = MsgBasicFailed)

C8_Witness ==
    /\ gate.tier2 = "exit0"
    /\ ~gate.basic_validation_passed
    /\ ScriptReturned

Tier2AttemptEnded == gate.tier2 # "none" /\ pc # "Rendering"

\* C11: once a Tier 2 validation attempt has ended, by whatever path, none of the
\* scratch artifacts it created still exists
C11_ScratchRemovedAfterAttempt == Tier2AttemptEnded => scratch = {}

\* generate_oem_review has been called in this run
AugmentationCalled == \E i \in 1..Len(calls) : calls[i] = "OEMReview"

\* C12 as stated: whatever the oracle does in the augmentation stage, the call leaves
\* the run unfailed, with one review for the technology (the oracle's, or a placeholder
\* embedding the error message) and the four core outputs delivered
C12_AugmentationFailureIsNotFatal ==
    AugmentationCalled =>
        /\ pc = "Done"
        /\ error = NoError
        /\ Len(oem_reviews_list) = 1
        /\ oem_reviews_list[1].oem_product_name = technology
        /\ ContentReturned

\* C13: the OEM review is called only for a technology that matches a keyword; a
\* successful run has the four core outputs, and has called the OEM review once and
\* holds exactly one review when the technology matches, and has not called it and
\* holds no review when it does not
C13_AugmentationIffMatch ==
    /\ AugmentationCalled => IsOemTechnology(technology, oem_keywords)
    /\ pc = "Done" =>
          /\ ContentReturned
          /\ CoreCalls = CoreStages
          /\ IF IsOemTechnology(technology, oem_keywords)
             THEN /\ Len(SelectSeq(calls, LAMBDA c : c = "OEMReview")) = 1
                  /\ Len(oem_reviews_list) = 1
             ELSE /\ ~AugmentationCalled
                  /\ oem_reviews_list = <<>>

C13_Witness ==
    /\ pc = "Done"
    /\ IsOemTechnology(technology, oem_keywords)
    /\ AugmentationCalled
    /\ Len(oem_reviews_list) = 1
    /\ ContentReturned

\* two characters that are equal when case is ignored
SameLetter(a, b) == a = b \/ {a, b} \in {{"S", "s"}, {"A", "a"}, {"P", "p"}, {"X", "x"}}

\* keyword kw occurs in name at some offset, case ignored
OccursIgnoringCase(kw, name) ==
    \E off \in 0..(Len(name) - Len(kw)) :
        \A i \in 1..Len(kw) : SameLetter(name[off + i], kw[i])

\* C14: _is_oem_technology returns true exactly when some keyword of the list occurs in
\* the technology name with case ignored, and false for every name when the list is empty
C14_MatchesIffKeywordIsSubstring ==
    pc = "Returned" =>
        /\ is_oem = (\E k \in 1..Len(oem_keywords) :
                        OccursIgnoringCase(oem_keywords[k], technology))
        /\ oem_keywords = <<>> => is_oem = FALSE

\* a match that needs the case to be ignored: no keyword occurs in the name as spelled
C14_Witness ==
    /\ pc = "Returned"
    /\ is_oem = TRUE
    /\ \A k \in 1..Len(oem_keywords) : ~Contains(technology, oem_keywords[k])

\* C15 as stated: every review of the run has the technology as product name and a
\* title that contains the technology name
C15_TitleContainsTechnology ==
    \A i \in 1..Len(oem_reviews_list) :
        /\ oem_reviews_list[i].oem_product_name = technology
        /\ Contains(oem_reviews_list[i].title, technology)

\* the titles the oracle returns that generate_oem_review keeps
OracleOwnTitles == {r.title : r \in OemOutcomes} \ {<<>>, DefaultReviewTitle}

\* C15 amended: every review of the run has the technology as product name; its title
\* is never empty nor the default title, and is either "Overview: <technology>" or a
\* title of the oracle's own, which need not contain the technology name
C15_NameSetTitleDefaulted ==
    \A i \in 1..Len(oem_reviews_list) :
        /\ oem_reviews_list[i].oem_product_name = technology
        /\ oem_reviews_list[i].title \notin {<<>>, DefaultReviewTitle}
        /\ \/ oem_reviews_list[i].title = <<"Overview:", " ">> \o technology
           \/ oem_reviews_list[i].title \in OracleOwnTitles

\* a delivered review whose title is the oracle's own and lacks the technology name
C15_Witness ==
    /\ pc = "Done"
    /\ Len(oem_reviews_list) = 1
    /\ oem_reviews_list[1].oem_product_name = technology
    /\ oem_reviews_list[1].title \in OracleOwnTitles
    /\ ~Contains(oem_reviews_list[1].title, technology)

\* the arguments of generate_all_technical_content break one of its preconditions
PreconditionBroken ==
    \/ rfp.full_text = <<>> /\ rfp.summary = <<>> /\ rfp.key_requirements = <<>>
    \/ technology = <<>>

\* C16: when the context is all empty or the technology is empty,
\* generate_all_technical_content makes no oracle call at all and its first step fails
\* with a ValueError; a run that failed with that ValueError has made no core call
C16_PreconditionsBeforeAnyCall ==
    /\ PreconditionBroken =>
          /\ CoreCalls = <<>>
          /\ pc \in {"Understanding", "Failed"}
          /\ pc = "Failed" => error.type = "ValueError"
    /\ (pc = "Failed" /\ error.type = "ValueError")
          => (CoreCalls = <<>> /\ content = NoContent)

\* the call failed on an all-empty context, with a technology given
C16_Witness ==
    /\ pc = "Failed"
    /\ error.type = "ValueError"
    /\ rfp.full_text = <<>> /\ rfp.summary = <<>> /\ rfp.key_requirements = <<>>
    /\ technology # <<>>
    /\ calls = <<>>

\* the outputs the core stages have returned so far
ReturnedOutputs ==
    {content.understanding_requirements_content, content.solution_overview_content,
     content.solution_architecture_descriptive_text,
     content.solution_architecture_mermaid_script} \ {NoneStr}

\* C17 as stated: no output returned by a core stage is empty or only whitespace
C17_CoreOutputsNotBlank == \A t \in ReturnedOutputs : Strip(t) # <<>>

\* C18 as stated: whatever makes generate_proposal abort, the caller receives a
\* ProposalGenerationError that names the failing stage and carries the cause
C18_EveryAbortIsWrapped ==
    pc = "Failed" =>
        /\ error.type = "ProposalGenerationError"
        /\ error.stage # ""
        /\ error.original_exception # NoExc

ProposalTexts ==
    {proposal.understanding_requirements, proposal.solution_overview,
     proposal.solution_architecture.descriptive_text,
     proposal.solution_architecture.mermaid_script}
      \cup {proposal.oem_solution_reviews[i].title : i \in 1..Len(proposal.oem_solution_reviews)}
      \cup {proposal.oem_solution_reviews[i].content : i \in 1..Len(proposal.oem_solution_reviews)}

\* C20 as stated: when the diagram stage returned its script with a warning, the
\* warning message is found in the Proposal that generate_proposal hands to the
\* formatting agent
C20_WarningReachesTheResult ==
    (pc = "Done" /\ content.mermaid_validation_error # NoneStr) =>
        \E t \in ProposalTexts : Contains(t, content.mermaid_validation_error)

\* the prompts file lacks one of the expected keys or holds an entry that is no string
PromptEntryMissingOrMalformed ==
    /\ env.prompts_json.kind = "object"
    /\ \/ \E key \in ExpectedPromptKeys : key \notin DOMAIN env.prompts_json.data
       \/ \E key \in DOMAIN env.prompts_json.data : env.prompts_json.data[key].type # "str"

PromptsFileInvalid ==
    env.prompts_json.kind \in {"missing", "undecodable", "number"}
        \/ PromptEntryMissingOrMalformed

\* config/oem_keywords.json holds an object whose "oem_keywords" is a list of strings
KeywordsFileIsListOfStrings ==
    /\ env.oem_keywords_json.kind = "object"
    /\ env.oem_keywords_json.keywords.type = "list"
    /\ \A i \in 1..Len(env.oem_keywords_json.keywords.items) :
          env.oem_keywords_json.keywords.items[i].type = "str"

\* C22: construction never fails because of the prompts file: a failed construction
\* has another cause (API key, probe, keyword file), a ConfigurationError that leaves
\* it comes from the keyword file, and once the agents are constructed on an invalid
\* prompts file every prompt is its built-in default
C22_PromptOverridesNeverFailConstruction ==
    /\ pc = "Failed" =>
          /\ error.type = "ConfigurationError" => ~KeywordsFileIsListOfStrings
          /\ \/ ~env.api_key
             \/ env.mmdc_probe \notin {"exit0", "CalledProcessError", "FileNotFoundError"}
             \/ ~KeywordsFileIsListOfStrings
    /\ (PromptsFileInvalid /\ pc \in {"LoadOemKeywords", "Constructed"}) =>
          \A key \in ExpectedPromptKeys : prompts[key] = DefaultPrompt(key)

\* a generator constructed although prompts.json is not JSON
C22_Witness ==
    /\ pc = "Constructed"
    /\ env.prompts_json.kind = "undecodable"
    /\ prompts = DefaultPrompts

\* C23 as stated: a generator is constructed only on a keyword file that holds a
\* non-empty list of strings, and a construction that reaches the keyword file and
\* finds anything else fails with a ConfigurationError
C23_KeywordsMustBeNonEmptyList ==
    /\ pc = "Constructed" =>
          (KeywordsFileIsListOfStrings /\ env.oem_keywords_json.keywords.items # <<>>)
    /\ (pc = "Failed" /\ env.api_key /\ env.mmdc_probe # "PermissionError") =>
          error.type = "ConfigurationError"

\* what the diagram stage of run i decides when the run is alone on the instance: Tier 2
\* is skipped only when construction found no renderer, otherwise the renderer is
\* invoked and gives the run its answer
AloneDecision(i) ==
    LET run == runs.run[i]
        mermaid_script == AddFences(run.raw)
        basic == ValidateMermaidBasic(mermaid_script)
        cli == IF ~runs.mmdc_path_found THEN [valid |-> TRUE, message |-> MsgSkipped]
               ELSE IF CleanScript(mermaid_script) = <<>>
               THEN [valid |-> FALSE, message |-> MsgEmpty]
               ELSE CliResult(run.response)
    IN  GateDecision(basic, cli.valid, cli.message)

\* C24 as stated: each of two interleaved runs parses its own document, and ends its
\* diagram stage with the verdict and the diagnostic it would have had alone
C24_RunsDoNotInterfere ==
    pc = "TwoRuns" =>
        \A i \in RunIds :
            /\ runs.run[i].parsed \in {0, runs.run[i].document}
            /\ runs.run[i].pc \in {"Done", "Failed"} =>
                  /\ runs.run[i].raise = AloneDecision(i).raise
                  /\ runs.run[i].reportable_error = AloneDecision(i).reportable_error


\* ------------------------------------------------- RFPParser.parse: chunking
\* the file handed to the parser: its type and the text its reader extracts
\* (_parse_pdf joins the page texts with newlines and accepts a blank result)
RfpFiles ==
    [kind : {"rfp_file"}, file_type : {"pdf", "markdown"},
     text : SeqsUpTo(ChunkChars, MaxTextTokens)]

\* RFPParser.parse: _parse_markdown refuses a blank file, _parse_pdf does not
Parse ==
    /\ pc = "parse"
    /\ IF env.file_type = "markdown" /\ Strip(env.text) = <<>>
       THEN /\ Escape(Raised("RFPParserError", <<"Error", "reading", "or", "parsing", "Markdown", "file">>))
            /\ UNCHANGED rfp
       ELSE /\ pc' = "Parsed"
            /\ rfp' = [full_text |-> env.text, text_chunks |-> TextChunks(env.text),
                       summary |-> NoneStr, key_requirements |-> <<>>]
            /\ UNCHANGED error
    /\ UNCHANGED <<mmdc_path, oem_keywords, is_oem, proposal,
                   technology, calls, sent, content, gate, scratch,
                   oem_reviews_list, env, prompts, runs>>

InitChunk ==
    /\ pc = "parse"
    /\ env \in RfpFiles
    /\ mmdc_path = FALSE
    /\ oem_keywords = <<>>
    /\ technology = NoneStr
    /\ rfp = NoRfp
    /\ calls = <<>>
    /\ sent = <<>>
    /\ content = NoContent
    /\ gate = NoGate
    /\ scratch = {}
    /\ is_oem = NoneStr
    /\ oem_reviews_list = <<>>
    /\ proposal = NoProposal
    /\ prompts = NoPrompts
    /\ runs = NoRuns
    /\ error = NoError

NextChunk == Parse

SpecChunk == InitChunk /\ [][NextChunk]_vars

\* the chunks of a parsed document, none when text_chunks is None
ChunkList(text_chunks) == IF text_chunks = NoChunks THEN <<>> ELSE text_chunks

RECURSIVE JoinChunks(_)
JoinChunks(chunks) ==
    IF chunks = <<>> THEN <<>> ELSE Head(chunks) \o JoinChunks(Tail(chunks))

ShorterThanWindow == pc = "Parsed" /\ TextLen(rfp.full_text) < chunk_size

C27_OracleFailureGivesPlaceholders ==
    pc = "Failed" => error.original_exception.type # "LLMGenerationError"

\* C28 as stated: review_rfp does not raise when the oracle raises or returns
\* no usable output; it hands the document back as it was, so no run ends in a
\* failure of the review.
C28_ReviewFailureReturnsDocument ==
    ~(pc = "Failed" /\ error.stage = "RFP Review"
                    /\ error.original_exception.type = "LLMGenerationError")

\* C29 as stated: however the trial invocation of the renderer fails, construction
\* does not fail because of it (with an API key and a usable keyword file it
\* succeeds), and a generator constructed after a failed trial has no renderer path,
\* so that its validations skip Tier 2.
C29_ProbeFailureIsNotFatal ==
    /\ (env.api_key /\ KeywordsFileIsListOfStrings) => pc # "Failed"
    /\ (pc = "Constructed" /\ env.mmdc_probe # "exit0") => mmdc_path = FALSE

\* a core stage function has been called in this run
CoreStageCalled == \E i \in 1..Len(calls) : calls[i] \in CoreStageNames

\* C30 as stated: a failed run names the phase in which it failed and went no
\* further. A run that failed before the review was called failed in parsing: it
\* carries stage "RFP Parsing" and the parser's or the file system's exception as
\* cause. A failure of the review has called no core stage, a failure of core
\* generation has made no augmentation call, and no failed run has assembled or
\* formatted a document.
C30_FailureNamesItsPhaseAndStops ==
    pc = "Failed" =>
        /\ calls = <<>> =>
              /\ error.type = "ProposalGenerationError"
              /\ error.stage = "RFP Parsing"
              /\ error.original_exception.type \in {"FileNotFoundError", "RFPParserError"}
        /\ error.stage = "RFP Parsing" => calls = <<>>
        /\ error.stage = "RFP Review" => (calls = <<"RFPReview">> /\ ~CoreStageCalled)
        /\ error.stage = "Technical Content Generation" => ~AugmentationCalled
        /\ proposal = NoProposal

\* the prompt of the call of a stage, or no text when the stage was not called
PromptOfStage(stage) ==
    IF \E i \in 1..Len(calls) : calls[i] = stage
    THEN sent[CHOOSE i \in 1..Len(calls) : calls[i] = stage]
    ELSE <<>>

StageCalled(stage) == \E i \in 1..Len(calls) : calls[i] = stage

\* C31 as stated: the prompt of a core stage holds the outputs of all the stages
\* before it, as the oracle returned them: the overview's prompt holds the
\* understanding, the architecture narrative's the understanding and the overview,
\* the diagram's all three.
C31_PromptsHoldAllEarlierOutputs ==
    prompts = DefaultPrompts =>
        /\ StageCalled("Overview") =>
              Contains(PromptOfStage("Overview"), content.understanding_requirements_content)
        /\ StageCalled("ArchitectureNarrative") =>
              /\ Contains(PromptOfStage("ArchitectureNarrative"),
                          content.understanding_requirements_content)
              /\ Contains(PromptOfStage("ArchitectureNarrative"),
                          content.solution_overview_content)
        /\ StageCalled("ArchitectureDiagram") =>
              /\ Contains(PromptOfStage("ArchitectureDiagram"),
                          content.understanding_requirements_content)
              /\ Contains(PromptOfStage("ArchitectureDiagram"),
                          content.solution_overview_content)
              /\ Contains(PromptOfStage("ArchitectureDiagram"),
                          content.solution_architecture_descriptive_text)

\* C31 amended: with the built-in templates the prompt of a core stage holds the
\* output of the stage just before it, as the oracle returned it: the overview's
\* prompt the understanding, the architecture narrative's the overview, the
\* diagram's the architecture narrative.
C31_PromptsHoldThePrecedingOutput ==
    prompts = DefaultPrompts =>
        /\ StageCalled("Overview") =>
              Contains(PromptOfStage("Overview"), content.understanding_requirements_content)
        /\ StageCalled("ArchitectureNarrative") =>
              Contains(PromptOfStage("ArchitectureNarrative"),
                       content.solution_overview_content)
        /\ StageCalled("ArchitectureDiagram") =>
              Contains(PromptOfStage("ArchitectureDiagram"),
                       content.solution_architecture_descriptive_text)

\* the diagram stage was called after three stages that returned different texts
C31_Witness ==
    /\ prompts = DefaultPrompts
    /\ StageCalled("ArchitectureDiagram")
    /\ content.understanding_requirements_content = <<"narrative">>
    /\ content.solution_overview_content = <<"other", "narrative">>
    /\ content.solution_architecture_descriptive_text = <<" ">>
    /\ ~Contains(PromptOfStage("ArchitectureDiagram"), <<"other", "narrative">>)

\* ------------------------------------- the core stages on long documents
\* contexts of generate_all_technical_content whose text, summary or requirements
\* are as long as the caps of the code or longer
LongContexts ==
    {[full_text |-> f, text_chunks |-> NoChunks, summary |-> s, key_requirements |-> k] :
        f \in {<<"RFP", "text">>, Pages(max_rfp_text_len \div PageLen),
               Pages(max_rfp_text_len \div PageLen + 1)},
        s \in {<<"Client", "needs", "a", "CRM">>, Pages(max_len \div PageLen + 1)},
        k \in {<<>>, << <<"reporting">> >>, << Pages(max_len \div PageLen + 1) >>}}

\* a direct call of generate_all_technical_content on such a context
InitExcerpt ==
    /\ pc = "Understanding"
    /\ mmdc_path \in BOOLEAN
    /\ oem_keywords = <<>>
    /\ technology = <<"X">>
    /\ rfp \in LongContexts
    /\ calls = <<>>
    /\ sent = <<>>
    /\ content = NoContent
    /\ gate = NoGate
    /\ scratch = {}
    /\ is_oem = NoneStr
    /\ oem_reviews_list = <<>>
    /\ proposal = NoProposal
    /\ env = NoEnv
    /\ prompts = DefaultPrompts
    /\ runs = NoRuns
    /\ error = NoError

SpecExcerpt == InitExcerpt /\ [][NextRun]_vars

\* the number of characters of the RFP text in the prompt of the first stage: what
\* is left of the prompt without the template's wording, the technology, the summary
\* and the requirements
DocumentExcerptLen ==
    TextLen(PromptOfStage("Understanding"))
        - TextLen(<<"default", "understanding_requirements">>) - TextLen(technology)
        - TextLen(SummaryStr(rfp.summary)) - TextLen(RequirementsStr(rfp.key_requirements))

\* C32 as stated: what a stage prompt holds of the document text, of the summary and
\* of the requirements is cut to a fixed length first: the excerpt of the text is no
\* longer than max_rfp_text_len, and a summary or a requirement longer than the
\* largest cap of the code (max_len) is not in a prompt in full.
C32_ExcerptsAreCapped ==
    /\ StageCalled("Understanding") => DocumentExcerptLen <= max_rfp_text_len
    /\ \A i \in 1..Len(sent) :
          /\ Contains(sent[i], rfp.summary) => TextLen(rfp.summary) <= max_len
          /\ \A j \in 1..Len(rfp.key_requirements) :
                Contains(sent[i], rfp.key_requirements[j])
                    => TextLen(rfp.key_requirements[j]) <= max_len

\* the run failed after the oracle call of a core stage was issued and before any
\* later call
FailedAfterCoreCall ==
    /\ pc = "Failed"
    /\ calls # <<>>
    /\ IsCoreStage(calls[Len(calls)])

\* C33: what leaves a core stage function after its oracle call is an
\* LLMGenerationError or a MermaidValidationError, and generate_proposal records it
\* as the cause: a failure of the oracle call (an exception, no output, an empty
\* output) is an LLMGenerationError, and a script the gate rejected leaves as a
\* MermaidValidationError, never wrapped into a plain LLMGenerationError.
C33_OnlyGenerationErrorsLeaveACalledStage ==
    FailedAfterCoreCall =>
        /\ error.type = "ProposalGenerationError"
        /\ error.original_exception.type \in {"LLMGenerationError", "MermaidValidationError"}
        /\ (calls[Len(calls)] # "ArchitectureDiagram" \/ gate.raw = NoneStr)
              => error.original_exception.type = "LLMGenerationError"
        /\ (calls[Len(calls)] = "ArchitectureDiagram" /\ gate.raw # NoneStr)
              => error.original_exception.type = "MermaidValidationError"

\* the renderer rejected the script and the run failed with that rejection as cause
C33_Witness ==
    /\ FailedAfterCoreCall
    /\ gate.process.kind = "exit"
    /\ gate.process.returncode = "1"
    /\ error.original_exception.type = "MermaidValidationError"

\* C34: in a run of generate_proposal the OEM review is called only when the four
\* core stages were called in order and the diagram stage has returned its script,
\* it is the call after the diagram's, and a run that fails in a core stage or at
\* the gate has not called it, whatever its technology.
C34_AugmentationOnlyAfterCoreSuccess ==
    /\ AugmentationCalled =>
          /\ ContentReturned
          /\ calls = <<"RFPReview">> \o CoreStages \o <<"OEMReview">>
    /\ (pc = "Failed" /\ ~ContentReturned) => ~AugmentationCalled
    /\ pc \in {"Understanding", "Overview", "ArchitectureNarrative", "ArchitectureDiagram",
               "Rendering"} => ~AugmentationCalled

\* the gate rejected the diagram of a run whose technology matches a keyword, and the
\* run ended without an OEM review call
C34_Witness ==
    /\ FailedAfterCoreCall
    /\ calls[Len(calls)] = "ArchitectureDiagram"
    /\ error.original_exception.type = "MermaidValidationError"
    /\ IsOemTechnology(technology, oem_keywords)
    /\ ~AugmentationCalled

\* ------------------------------------------------ review_rfp on its own
\* the documents handed to review_rfp: without chunks, with one chunk, with two, with
\* a text or a first chunk longer than max_len, and without any text
ReviewDocuments ==
    {[full_text |-> f, text_chunks |-> c, summary |-> NoneStr, key_requirements |-> <<>>] :
        f \in {<<>>, <<PageA, PageB>>, Pages(max_len \div PageLen + 1)},
        c \in {NoChunks, <<>>, << <<PageA>> >>, << <<PageA>>, <<PageB>> >>,
               << Pages(max_len \div PageLen + 1) >>,
               << Pages(max_len \div PageLen + 1), <<"x">> >>}}

\* a call of review_rfp on any such document, with the built-in or a loaded template
InitReview ==
    /\ pc = "RFPReview"
    /\ mmdc_path = FALSE
    /\ oem_keywords = <<>>
    /\ technology = <<"X">>
    /\ rfp \in ReviewDocuments
    /\ calls = <<>>
    /\ sent = <<>>
    /\ content = NoContent
    /\ gate = NoGate
    /\ scratch = {}
    /\ is_oem = NoneStr
    /\ oem_reviews_list = <<>>
    /\ proposal = NoProposal
    /\ env = NoEnv
    /\ prompts \in {DefaultPrompts, CustomPrompts}
    /\ runs = NoRuns
    /\ error = NoError

NextReview == ReviewRFP

SpecReview == InitReview /\ [][NextReview]_vars

\* the text of the document the review may send: its first chunk, or its full text
\* when it has no chunk
FirstChunkOrFullText ==
    IF rfp.text_chunks \in {NoChunks, <<>>} THEN rfp.full_text ELSE rfp.text_chunks[1]

\* text is the end of prompt
IsSuffix(text, prompt) ==
    /\ Len(text) <= Len(prompt)
    /\ SubSeq(prompt, Len(prompt) - Len(text) + 1, Len(prompt)) = text

\* C35: a review makes at most one oracle call, and exactly one when the document
\* has a text, however many chunks there are. With the built-in template the prompt
\* ends with the first chunk (the full text when there is no chunk), whole when it
\* has at most max_len characters and else cut to its first max_len characters, and
\* nothing of the document comes before it; a later chunk is in the prompt only if
\* it is part of what was sent of the first.
C35_ReviewSendsFirstChunkOnce ==
    pc # "RFPReview" =>
        /\ Len(calls) <= 1
        /\ FirstChunkOrFullText # <<>> => calls = <<"RFPReview">>
        /\ (calls # <<>> /\ prompts = DefaultPrompts) =>
              \E k \in 0..Len(FirstChunkOrFullText) :
                 LET excerpt == SubSeq(FirstChunkOrFullText, 1, k)
                 IN  /\ IsSuffix(excerpt, sent[1])
                     /\ TextLen(excerpt) <= max_len
                     /\ TextLen(excerpt) = max_len \/ k = Len(FirstChunkOrFullText)
                     /\ TextLen(sent[1]) - TextLen(excerpt) < PageLen
        /\ (calls # <<>> /\ rfp.text_chunks # NoChunks) =>
              \A j \in 2..Len(rfp.text_chunks) :
                 Contains(sent[1], rfp.text_chunks[j])
                     => Contains(rfp.text_chunks[1], rfp.text_chunks[j])

\* a document of two chunks was reviewed: the prompt holds the first and not the second
C35_Witness ==
    /\ pc = "Understanding"
    /\ rfp.text_chunks = << <<PageA>>, <<PageB>> >>
    /\ rfp.full_text = <<PageA, PageB>>
    /\ calls = <<"RFPReview">>
    /\ Contains(sent[1], <<PageA>>)
    /\ ~Contains(sent[1], <<PageB>>)


\* ------------------------------------------- the renderer-availability flag
\* C36: on a constructed agent the renderer path only ever goes from found to
\* absent. An attempt that finds the executable missing at execution raises nothing
\* and leaves the path absent; with the path absent a diagram stage ends with Tier 2
\* skipped and never invokes the renderer; no step makes the path found again.
C36_RendererOnlyBecomesUnavailable ==
    /\ [](pc = "TwoRuns" =>
            \A i \in RunIds :
               runs.run[i].tier2 = "gone" =>
                  /\ ~mmdc_path
                  /\ runs.run[i].pc = "Done"
                  /\ runs.run[i].raise = NoExc)
    /\ [][/\ mmdc_path' => mmdc_path
          /\ \A i \in RunIds :
                (/\ ~mmdc_path
                 /\ runs.run[i].pc = "ArchitectureDiagram"
                 /\ runs'.run[i].pc # "ArchitectureDiagram")
                    => /\ runs'.run[i].tier2 = "skipped"
                       /\ runs'.run[i].pc = "Done"]_vars

\* the agent was built with the renderer found; one run found it missing at execution
\* and the other, whose script the renderer would have rejected, skipped Tier 2
C36_Witness ==
    /\ pc = "TwoRuns"
    /\ runs.mmdc_path_found
    /\ ~mmdc_path
    /\ runs.run[1].tier2 = "gone"
    /\ runs.run[1].pc = "Done"
    /\ ~runs.run[1].basic_validation_passed
    /\ runs.run[2].tier2 = "skipped"
    /\ runs.run[2].response.kind = "exit"
    /\ runs.run[2].response.returncode # "0"


\* ----------------------------------- Tier 2 ending in an unexpected error
\* C37: when the renderer invocation ends in an unexpected error the outcome depends
\* on the basic check alone: the script is returned without any diagnostic when the
\* basic check passed, and a validation error is raised when it failed.
C37_UnexpectedErrorLeavesTier1ToDecide ==
    gate.tier2 = "unexpected" =>
        IF gate.basic_validation_passed
        THEN ScriptReturned /\ content.mermaid_validation_error = NoneStr
        ELSE ValidationErrorRaised /\ ~ContentReturned


\* ------------------------------- the technical writer's prompt templates
\* C38: once the technical-writer agent is constructed, each of its five templates is
\* the built-in default or the string the prompts file holds for it; when the file
\* cannot be loaded (missing, not JSON, not an object, a key missing, an entry that
\* is no string) all five are the defaults, also those whose entries are valid, and
\* when it can be loaded all five are the file's.
C38_WriterPromptsAllLoadedOrAllDefault ==
    pc \in {"LoadOemKeywords", "Constructed"} =>
        /\ \A key \in WriterPromptKeys :
              \/ prompts[key] = DefaultPrompt(key)
              \/ /\ env.prompts_json.kind = "object"
                 /\ key \in DOMAIN env.prompts_json.data
                 /\ env.prompts_json.data[key].type = "str"
                 /\ prompts[key] = env.prompts_json.data[key].text
        /\ PromptsFileInvalid =>
              \A key \in WriterPromptKeys : prompts[key] = DefaultPrompt(key)
        /\ ~PromptsFileInvalid =>
              \A key \in WriterPromptKeys : prompts[key] = env.prompts_json.data[key].text

\* the agent was constructed on a file whose oem_review entry is a number and whose
\* other entries are valid overrides: it holds the default of solution_overview
C38_Witness ==
    /\ pc = "Constructed"
    /\ env.prompts_json.kind = "object"
    /\ DOMAIN env.prompts_json.data = ExpectedPromptKeys
    /\ env.prompts_json.data["oem_review"].type = "int"
    /\ env.prompts_json.data["solution_overview"] = JsonStr(CustomPrompts["solution_overview"])
    /\ prompts["solution_overview"] = DefaultPrompt("solution_overview")
    /\ prompts["solution_overview"] # CustomPrompts["solution_overview"]

====
